---------------------------- MODULE Spec2Model ----------------------------
(***************************************************************************)
(* A model of print3rs: the G-code line serializer (gcode-serializer) and  *)
(* the printer communication core (print3rs-core): Socket::send, the       *)
(* acknowledgement correlator search_for_sequence, the background task     *)
(* printer_com_task and the Printer handle.                                *)
(*                                                                         *)
(* Bytes are their ASCII codes, a byte string is a sequence of codes.      *)
(***************************************************************************)
EXTENDS Integers, Sequences, FiniteSets, TLC

(***************************************************************************)
(* Bounds of the model.                                                    *)
(***************************************************************************)
\* threads that serialize through clones of one Serializer
MaxThreads == 2
\* calls of set_sequence in one behaviour
MaxSetSeq == 1
\* sequenced serializations started in one behaviour of the serializer
MaxSer == 3

\* lines one serializer formats in the runs about the bytes of a line
FmtLines == 2

(***************************************************************************)
(* Program constants.                                                      *)
(***************************************************************************)
\* AtomicI32: the largest value of the counter
I32Max == 2147483647
\* Arc::new(1.into()): the counter of a fresh serializer
FirstSequence == 1
QueueCapacityNine == 8 + 1

\* mpsc::channel(8)
QueueCapacity == 8
BroadcastCapacitySixtyFive == 64 + 1
\* broadcast::channel(64)
BroadcastCapacity == 64

I32Min == -I32Max - 1

(***************************************************************************)
(* Bytes.                                                                  *)
(***************************************************************************)
NL == 10
Star == 42
Minus == 45
Dot == 46
Digit0 == 48
UpperN == 78

\* bit i of a ^ b, at its place value
XorBit(a, b, p) == p * ((((a \div p) % 2) + ((b \div p) % 2)) % 2)

\* u8 ^ u8, the eight bits
XorBits(a, b) ==
    XorBit(a, b, 1) + XorBit(a, b, 2) + XorBit(a, b, 4) + XorBit(a, b, 8)
    + XorBit(a, b, 16) + XorBit(a, b, 32) + XorBit(a, b, 64) + XorBit(a, b, 128)

XorSkipsByte(c, b) == c

\* GcodeLineWriter::checksum, one byte: self.checksum ^= byte
XorByte(c, b) == XorBits(c, b)

RECURSIVE ChecksumOf(_, _)
\* GcodeLineWriter::checksum: fold of ^= over buf, from the checksum c
ChecksumOf(c, buf) ==
    IF buf = << >> THEN c
    ELSE CHOOSE sum \in { ChecksumOf(x, Tail(buf)) : x \in { XorByte(c, Head(buf)) } } : TRUE

RECURSIVE DigitsNat(_)
\* decimal digits of n >= 0, most significant first
DigitsNat(n) ==
    IF n < 10 THEN << Digit0 + n >> ELSE DigitsNat(n \div 10) \o << Digit0 + (n % 10) >>

RECURSIVE DigitsNeg(_)
\* decimal digits of |n| for n < 0, computed without negating n (no i32 overflow)
DigitsNeg(n) ==
    LET d == (10 - (n % 10)) % 10
        q == (n + d) \div 10
    IN  IF q = 0 THEN << Digit0 + d >> ELSE DigitsNeg(q) \o << Digit0 + d >>

\* itoa::Buffer::format for a signed integer
Itoa(n) == IF n < 0 THEN << Minus >> \o DigitsNeg(n) ELSE DigitsNat(n)

\* ryu::Buffer::format for a float that is exactly t/10 (t tenths), plain notation
Ryu(t) ==
    IF t < 0 THEN << Minus >> \o DigitsNat((-t) \div 10) \o << Dot, Digit0 + ((-t) % 10) >>
    ELSE DigitsNat(t \div 10) \o << Dot, Digit0 + (t % 10) >>

\* char::to_ascii_uppercase
ToAsciiUppercase(b) == IF b >= 97 /\ b <= 122 THEN b - 32 ELSE b

(***************************************************************************)
(* Command values: a unit struct, or a struct with named fields whose      *)
(* values are integers ("i"), booleans ("b") or floats in tenths ("f").    *)
(***************************************************************************)
\* struct M1234;
M1234 == [name |-> << 77, 49, 50, 51, 52 >>, fields |-> << >>]
\* struct G1234 { x: i32, y: f32 } with x = -1, y = 2.3
G1234 == [name |-> << 71, 49, 50, 51, 52 >>,
          fields |-> << [key |-> << 120 >>, ty |-> "i", v |-> -1],
                        [key |-> << 121 >>, ty |-> "f", v |-> 23] >>]
\* a struct G1 { x: i32, feed: bool } with x = 10, feed = true
G1 == [name |-> << 71, 49 >>,
       fields |-> << [key |-> << 120 >>, ty |-> "i", v |-> 10],
                     [key |-> << 102, 101, 101, 100 >>, ty |-> "b", v |-> 1] >>]

Commands == { M1234, G1234, G1 }

\* serialize_i32 / serialize_bool / serialize_f32: the bytes of one primitive
RenderValue(f) ==
    CASE f.ty = "i" -> Itoa(f.v)
      [] f.ty = "b" -> Itoa(f.v)
      [] f.ty = "f" -> Ryu(f.v)

\* SerializeStruct::serialize_field: uppercase first char of the key, then the value
RenderField(f) == << ToAsciiUppercase(f.key[1]) >> \o RenderValue(f)

RECURSIVE RenderFields(_)
RenderFields(fs) ==
    IF fs = << >> THEN << >> ELSE RenderField(Head(fs)) \o RenderFields(Tail(fs))

\* serialize_unit_struct / serialize_struct: the name, then the fields in order
RenderBody(cmd) == cmd.name \o RenderFields(cmd.fields)

(***************************************************************************)
(* GcodeLineWriter: buffer, sequence (<< >> is None, << s >> is Some(s)),  *)
(* checksum.                                                               *)
(***************************************************************************)
NewWriter(seqOpt) == [buffer |-> << >>, sequence |-> seqOpt, checksum |-> 0]

\* GcodeLineWriter::write: put_slice, then fold the bytes into the checksum
Write(w, bytes) ==
    [w EXCEPT !.buffer = @ \o bytes, !.checksum = ChecksumOf(@, bytes)]

FinishWithoutChecksum(w) == [w EXCEPT !.buffer = @ \o << NL >>]

\* GcodeLineWriter::finish: '*' and the checksum for a sequenced line, then '\n'
Finish(w) ==
    [w EXCEPT !.buffer =
        IF w.sequence # << >> THEN @ \o << Star >> \o Itoa(w.checksum) \o << NL >>
        ELSE @ \o << NL >>]

\* finish's return value: self.sequence.unwrap_or_default()
FinishValue(w) == IF w.sequence # << >> THEN w.sequence[1] ELSE 0

FetchAddNoIncrement(c) == c

\* AtomicI32::fetch_add(1): the stored value, wrapping at i32::MAX
FetchAdd(c) == IF c = I32Max THEN I32Min ELSE c + 1

SerializeUnsequencedFramed(cmd) ==
    Finish(Write(Write(Write(NewWriter(<< 0 >>), << UpperN >>), Itoa(0)), RenderBody(cmd))).buffer

\* Serializer::serialize_unsequenced_into: the bytes of the line
SerializeUnsequenced(cmd) == Finish(Write(NewWriter(<< >>), RenderBody(cmd))).buffer

\* Serializer::serialize_into with the claimed number s: the bytes of the line
SequencedLine(s, cmd) ==
    Finish(Write(Write(Write(NewWriter(<< s >>), << UpperN >>), Itoa(s)), RenderBody(cmd))).buffer


(***************************************************************************)
(* Parsing a sequenced line back, as a firmware would: the number after    *)
(* 'N', the bytes before '*', the number after '*'.                        *)
(***************************************************************************)
IsDigit(b) == b >= Digit0 /\ b <= Digit0 + 9

RECURSIVE DigitsEnd(_, _)
\* the index of the last byte of the run of digits that starts at index i
DigitsEnd(bytes, i) ==
    IF i + 1 <= Len(bytes) /\ IsDigit(bytes[i + 1]) THEN DigitsEnd(bytes, i + 1) ELSE i

RECURSIVE ParseNat(_, _)
\* the value of the digits, acc the value read so far
ParseNat(ds, acc) ==
    IF ds = << >> THEN acc ELSE ParseNat(Tail(ds), 10 * acc + (Head(ds) - Digit0))

RECURSIVE ParseNegNat(_, _)
\* the value of - digits, accumulated downwards so that i32::MIN is reached
ParseNegNat(ds, acc) ==
    IF ds = << >> THEN acc ELSE ParseNegNat(Tail(ds), 10 * acc - (Head(ds) - Digit0))

\* the signed decimal number that starts at index i of bytes
ParseIntAt(bytes, i) ==
    IF bytes[i] = Minus
    THEN ParseNegNat(SubSeq(bytes, i + 1, DigitsEnd(bytes, i + 1)), 0)
    ELSE ParseNat(SubSeq(bytes, i, DigitsEnd(bytes, i)), 0)

\* the index of the last '*' of the line (0 when there is none)
StarIndex(bytes) ==
    LET at == { i \in 1..Len(bytes) : bytes[i] = Star }
    IN  IF at = {} THEN 0 ELSE CHOOSE i \in at : \A j \in at : j <= i

IsSequencedLine(bytes) ==
    /\ Len(bytes) >= 5
    /\ bytes[1] = UpperN
    /\ StarIndex(bytes) > 2
    /\ bytes[Len(bytes)] = NL

LineSequence(bytes) == ParseIntAt(bytes, 2)
LineChecksum(bytes) == ParseIntAt(bytes, StarIndex(bytes) + 1)
LineChecked(bytes) == SubSeq(bytes, 1, StarIndex(bytes) - 1)

(***************************************************************************)
(* State of the serializer: one shared counter, and threads that each run  *)
(* Serializer::serialize_into on a clone.                                  *)
(***************************************************************************)
VARIABLES
    counter,      \* Serializer.sequence, the Arc<AtomicI32> all clones share
    ser,          \* per thread: the call of serialize_into in progress
    returned,     \* history: what the finished calls returned (idx: the call's place in
                  \* the claim order; raced: another call claimed while this one ran;
                  \* stored: the last set_sequence ran while this one ran)
    claimLog,     \* history: the numbers fetch_add handed out, in claim order
    nSetSeq,      \* history: calls of set_sequence so far
    startCounter, \* history: the counter in the initial state
    lastSet       \* history: the last call of set_sequence, << >> when there was none: its
                  \* argument k, the number of claims before it (at), and whether no
                  \* serialization was in progress (quiet)

serVars == << counter, ser, returned, claimLog, nSetSeq, startCounter, lastSet >>

Threads == 1..MaxThreads

\* the counter of a fresh serializer, and of one that has already served
\* I32Max - 2 sequenced lines
StartCounters == { FirstSequence, I32Max - 1 }

\* the arguments of set_sequence: a number below the counter's, and i32::MAX
SetSeqValues == { 1, I32Max }

\* sequence numbers of one to ten digits, zero, negative ones, the ends of i32
LineNumbers == { 0, 9, 255, -7, I32Max - 1, I32Min }

IdleThread == [pc |-> "idle", idx |-> 0, cmd |-> M1234, w |-> NewWriter(<< >>)]

InitSer ==
    /\ counter \in StartCounters
    /\ startCounter = counter
    /\ ser = [t \in Threads |-> IdleThread]
    /\ returned = {}
    /\ claimLog = << >>
    /\ nSetSeq = 0
    /\ lastSet = << >>

PrefixFromCounter(w, c) == IF c = I32Min THEN I32Max ELSE c - 1

\* serialize_into: .serialize(sequence), the number written after 'N' is the
\* local the fetch_add returned (c is the shared counter at the time of writing)
PrefixNumber(w, c) == w.sequence[1]

\* serialize_into, line 94: let sequence = self.sequence.fetch_add(1) and the
\* GcodeLineWriter built around it
SerClaim(t, cmd) ==
    /\ ser[t].pc = "idle"
    /\ ser' = [ser EXCEPT ![t] = [pc |-> "claimed", idx |-> Len(claimLog) + 1, cmd |-> cmd,
                                  w |-> NewWriter(<< counter >>)]]
    /\ counter' = FetchAdd(counter)
    /\ claimLog' = Append(claimLog, [t |-> t, seq |-> counter])
    /\ UNCHANGED << returned, nSetSeq, startCounter, lastSet >>

\* serialize_into, lines 100-103: 'N', the number, the command
SerWrite(t) ==
    /\ ser[t].pc = "claimed"
    /\ ser' = [ser EXCEPT ![t].pc = "written",
                          ![t].w = Write(Write(Write(@, << UpperN >>),
                                               Itoa(PrefixNumber(@, counter))),
                                         RenderBody(ser[t].cmd))]
    /\ UNCHANGED << counter, returned, claimLog, nSetSeq, startCounter, lastSet >>

\* serialize_into, line 104: finish(), and the call returns
SerFinish(t) ==
    /\ ser[t].pc = "written"
    /\ returned' = returned \cup { [idx |-> ser[t].idx, t |-> t, cmd |-> ser[t].cmd,
                                     seq |-> FinishValue(ser[t].w),
                                     bytes |-> Finish(ser[t].w).buffer,
                                     raced |-> Len(claimLog) > ser[t].idx,
                                     stored |-> lastSet # << >> /\ lastSet[1].at >= ser[t].idx] }
    /\ ser' = [ser EXCEPT ![t] = IdleThread]
    /\ UNCHANGED << counter, claimLog, nSetSeq, startCounter, lastSet >>

\* Serializer::serialize_unsequenced_into: a writer without a sequence number,
\* the command, finish(); the counter is not read
SerUnsequenced(t, cmd) ==
    /\ ser[t].pc = "idle"
    /\ returned' = returned \cup
          { [idx |-> 0, t |-> t, cmd |-> cmd,
             seq |-> FinishValue(Write(NewWriter(<< >>), RenderBody(cmd))),
             bytes |-> Finish(Write(NewWriter(<< >>), RenderBody(cmd))).buffer,
             raced |-> FALSE, stored |-> FALSE] }
    /\ UNCHANGED << counter, ser, claimLog, nSetSeq, startCounter, lastSet >>

\* Serializer::set_sequence: self.sequence.store(new_sequence)
SetSequence(k) ==
    /\ counter' = k
    /\ nSetSeq' = nSetSeq + 1
    /\ lastSet' = << [k |-> k, at |-> Len(claimLog),
                      quiet |-> \A t \in Threads : ser[t].pc = "idle"] >>
    /\ UNCHANGED << ser, returned, claimLog, startCounter >>


(***************************************************************************)
(* Responses and the classifier of one inbound line (print3rs-core's       *)
(* response module).                                                       *)
(***************************************************************************)
PlainOk == [tag |-> "Ok", n |-> 0]
SequencedOk(n) == [tag |-> "SequencedOk", n |-> n]
Resend(n) == [tag |-> "Resend", n |-> n]
Other == [tag |-> "Other", n |-> 0]

Space == 32
IsSpace(b) == b = Space \/ b = 9 \/ b = 13 \/ b = NL

\* u8::to_ascii_lowercase
ToAsciiLowercase(b) == IF b >= 65 /\ b <= 90 THEN b + 32 ELSE b

RECURSIVE TrimStart(_)
TrimStart(bytes) ==
    IF bytes # << >> /\ IsSpace(Head(bytes)) THEN TrimStart(Tail(bytes)) ELSE bytes

RECURSIVE TrimEnd(_)
TrimEnd(bytes) ==
    IF bytes # << >> /\ IsSpace(bytes[Len(bytes)])
    THEN TrimEnd(SubSeq(bytes, 1, Len(bytes) - 1)) ELSE bytes

Lower(bytes) == [i \in 1..Len(bytes) |-> ToAsciiLowercase(bytes[i])]

StartsWith(bytes, prefix) ==
    Len(bytes) >= Len(prefix) /\ SubSeq(bytes, 1, Len(prefix)) = prefix

AllDigits(bytes) == bytes # << >> /\ \A i \in 1..Len(bytes) : IsDigit(bytes[i])

OkWord == << 111, 107 >>
RsWord == << 114, 115 >>
ResendWord == << 114, 101, 115, 101, 110, 100, 58 >>

\* the digits that follow a keyword: whitespace, an optional 'n', whitespace
NumberAfter(rest) ==
    LET r1 == TrimStart(rest)
        r2 == IF r1 # << >> /\ Head(r1) = 110 THEN TrimStart(Tail(r1)) ELSE r1
    IN  r2

\* what follows "ok": nothing -> PlainOk, digits -> SequencedOk
OkWith(d) ==
    IF d = << >> THEN PlainOk
    ELSE IF AllDigits(d) /\ Len(d) <= 9 THEN SequencedOk(ParseNat(d, 0))
    ELSE Other

\* what follows "Resend:" or "rs": digits -> Resend
ResendWith(d) == IF AllDigits(d) /\ Len(d) <= 9 THEN Resend(ParseNat(d, 0)) ELSE Other

\* the classification of a line already trimmed and lowercased
ClassifyTrimmed(l) ==
    IF StartsWith(l, OkWord)
    THEN CHOOSE resp \in { OkWith(d) : d \in { NumberAfter(SubSeq(l, 3, Len(l))) } } : TRUE
    ELSE IF StartsWith(l, ResendWord)
    THEN CHOOSE resp \in { ResendWith(d) :
                             d \in { NumberAfter(SubSeq(l, Len(ResendWord) + 1, Len(l))) } } : TRUE
    ELSE IF StartsWith(l, RsWord)
    THEN CHOOSE resp \in { ResendWith(d) : d \in { NumberAfter(SubSeq(l, 3, Len(l))) } } : TRUE
    ELSE Other

\* response: "ok" -> PlainOk, "ok N<digits>" -> SequencedOk, "Resend: <digits>"
\* or "rs <digits>" -> Resend, anything else -> Other
Classify(line) ==
    CHOOSE resp \in { ClassifyTrimmed(l) : l \in { Lower(TrimEnd(TrimStart(line))) } } : TRUE

\* what a firmware sends
OkLine(n) == OkWord \o << Space >> \o Itoa(n) \o << NL >>
ResendLine(n) == << 82, 101, 115, 101, 110, 100, 58, Space >> \o Itoa(n) \o << NL >>
PlainOkLine == OkWord \o << NL >>
\* "T:2\n"
TempLine == << 84, 58, 50, NL >>


(***************************************************************************)
(* State of the communication core.                                        *)
(***************************************************************************)
\* calls of Socket::send in one behaviour
MaxSends == 2
\* calls of send_unsequenced and send_raw in one behaviour
MaxTrySends == 1
\* calls of Socket::send where one send and its correlator are followed
FewSends == 1
\* reads of the transport that return bytes: under Spec, SpecCorr, SpecIn
SpecReads == 2
CorrReads == 3
InReads == 4
LiveReads == 1
\* reads under SpecLag: enough lines to overrun the 64-slot broadcast
LagReads == 66
\* calls of Printer::connect in one behaviour
MaxConnects == 1
\* reads under SpecDead
DeadReads == 1
\* reads under SpecDrop
DropReads == 1
\* reads under SpecShare
ShareReads == 2
\* reads under SpecDetach
DetachReads == 2
\* reads under SpecFrag
FragReads == 3
\* reads under SpecFail
FailReads == 2
\* reads under SpecEnd
EndReads == 2
\* reads under SpecOrphan
OrphanReads == 2
\* the frames the stack of a call of expand_all has room for
StackDepth == 4
\* calls of send_unsequenced and send_raw under SpecFull: enough to fill the
\* 8-slot queue, be refused, and succeed again
FullTries == 10

VARIABLES
    printer,    \* the Printer enum: "Connected" or "Disconnected"
    clone,      \* a Socket cloned from the printer's: "none", "alive", "dropped", "panicked"
    taskState,  \* printer_com_task: "running" or "ended"
    taskPc,     \* where it is: "select", "flush" (after write_all), "split" (the while loop)
    abortReq,   \* com_task.abort() was called
    transport,  \* the byte stream: "open", "eof" (reads return 0), "broken" (reads and writes fail)
    outq,       \* the mpsc buffer: the committed lines not yet received by the task
    commitLog,  \* history: every line committed to the queue, in commit order
    written,    \* history: the lines written to the transport, in order
    sends,      \* per call of Socket::send: its position and locals
    subs,       \* the broadcast receivers: 0 the printer's socket, i the one send i opened,
                \* MaxSends + 1 the clone's
    corr,       \* per send: the correlator task search_for_sequence
    published,  \* history: every line the broadcast sender accepted, in order
    inRead,     \* history: every byte read_buf returned, in order
    buf,        \* printer_com_task's rolling buffer
    nReads,     \* history: reads that returned bytes
    nTry,       \* history: calls of send_unsequenced and send_raw
    prior,      \* the background tasks of the connections before this one, oldest first:
                \* whether each still runs and whether abort() was called on it
    readCall,   \* read_next_line on the clone called and awaited as two steps: whether a
                \* call is in progress (active), how many lines had been published when
                \* the last call began (began), the position of the line it returned (idx)
    lastCall,   \* history: the last call that returned an error or a try-send's result:
                \* the method (op), whether it was made on the Printer or on a cloned
                \* Socket (on), the error or "none" (err)
    dropped,    \* per send: NotDropped while the JoinHandle that send returned is held
                \* (or not yet returned); once it was dropped, how many lines the
                \* correlator's subscription had passed at that moment
    macros,     \* Macros.0, the HashMap<String, Vec<String>>: a function from the keys
                \* it holds to their steps
    expand,     \* the call of expand_all in progress: the codes it was given (codes), the
                \* call stack as the codes each loop has still to visit, innermost
                \* first (stack), the output vector (expanded) and where the call
                \* stands (pc): "idle", "running", "done" or "overflow"
    lastMacro,  \* history: the last add or remove, with its arguments
    old         \* what a Socket cloned from the connection before this one is bound to:
                \* whether that clone is held (clone), the place of its task in prior (g),
                \* the old queue, the old transport and what was written to it, the old
                \* broadcast and the clone's place in it, the lines the clone received
                \* (got), the old serializer's counter, and how often the clone was
                \* used to send (tries) and the old transport was read (reads)

coreVars == << printer, clone, taskState, taskPc, abortReq, transport, outq, commitLog,
               written, sends, subs, corr, published, inRead, buf, nReads, nTry >>

\* the state of the console's macro table and of a call of Macros::expand_all
macVars == << macros, expand, lastMacro >>

handleVars == << prior, lastCall, readCall, dropped, macVars, old >>

vars == << serVars, coreVars, handleVars >>

SendIds == 1..MaxSends
SockSub == 0
CloneSub == MaxSends + 1
SubIds == 0..(MaxSends + 1)

NoSub == [state |-> "none", start |-> 0, cursor |-> 0, got |-> << >>, lagged |-> FALSE]
NoSend == [pc |-> "idle", cmd |-> M1234, seq |-> 0, bytes |-> << >>,
           permit |-> FALSE, commitPub |-> 0]
NoCorr == [state |-> "none", sequence |-> 0, result |-> Other, why |-> "none"]
NoRead == [active |-> FALSE, began |-> 0, idx |-> 0]
NoCall == [op |-> "none", on |-> "none", err |-> "none"]
NoExpand == [codes |-> << >>, stack |-> << >>, expanded |-> << >>, pc |-> "idle"]
NoMacro == [op |-> "none", name |-> << >>, steps |-> << >>]

\* Macros::new: an empty table
InitMacros ==
    /\ macros = [k \in {} |-> << >>]
    /\ expand = NoExpand
    /\ lastMacro = NoMacro
NotDropped == -1

\* no Socket of an earlier connection is held
NoOld == [clone |-> "none", g |-> 0, outq |-> << >>, transport |-> "open", written |-> << >>,
          published |-> << >>, cursor |-> 0, got |-> << >>, counter |-> 0,
          tries |-> 0, reads |-> 0]

ResubscribeFromOldest == [state |-> "open", start |-> Len(published), cursor |-> 0,
                          got |-> << >>, lagged |-> FALSE]

\* broadcast::Receiver::resubscribe / Sender::subscribe: a receiver that starts at the tail
Resubscribe == [state |-> "open", start |-> Len(published), cursor |-> Len(published),
                got |-> << >>, lagged |-> FALSE]

\* Printer::new: the 8-slot queue, the 64-slot broadcast, the spawned task, a
\* default serializer
InitCore ==
    /\ printer = "Connected"
    /\ clone = "none"
    /\ taskState = "running"
    /\ taskPc = "select"
    /\ abortReq = FALSE
    /\ transport = "open"
    /\ outq = << >>
    /\ commitLog = << >>
    /\ written = << >>
    /\ sends = [i \in SendIds |-> NoSend]
    /\ published = << >>
    /\ subs = [s \in SubIds |-> IF s = SockSub THEN Resubscribe ELSE NoSub]
    /\ corr = [i \in SendIds |-> NoCorr]
    /\ inRead = << >>
    /\ buf = << >>
    /\ nReads = 0
    /\ nTry = 0
    /\ prior = << >>
    /\ lastCall = NoCall
    /\ readCall = NoRead
    /\ dropped = [i \in SendIds |-> NotDropped]
    /\ InitMacros
    /\ old = NoOld

\* the mpsc receiver and the broadcast sender live in the task's future
RxClosed == taskState = "ended"
TxClosed == taskState = "ended"

SlotsUsedIgnoresPermits == Len(outq)

\* slots of the queue in use: buffered lines and outstanding permits
SlotsUsed == Len(outq) + Cardinality({ i \in SendIds : sends[i].permit })

\* a Socket to call on: the printer's (Printer::socket) or the clone
SocketAlive == printer = "Connected" \/ clone = "alive"

\* the socket a call is made on: the printer's own, or the clone
SocketOn(on) == IF on = "printer" THEN printer = "Connected" ELSE clone = "alive"

\* the record of a call that returns now
Returned(op, on, err) == [op |-> op, on |-> on, err |-> err]

\* a send future in progress; it borrows the socket it was called on
InFlight == \E i \in SendIds : sends[i].pc \notin { "idle", "done", "failed" }

(***************************************************************************)
(* Socket::send, one action per statement.  sends[i].pc names the          *)
(* statement the call executes next.                                       *)
(***************************************************************************)
SendStepAfterCommitFirst(step) ==
    CASE step = "reserve" -> "serialize"
      [] step = "serialize" -> "commit"
      [] step = "commit" -> "subscribe"
      [] step = "subscribe" -> "spawn"
      [] step = "spawn" -> "done"

\* the order of the statements of Socket::send (lines 116-122)
SendStepAfter(step) ==
    CASE step = "reserve" -> "serialize"
      [] step = "serialize" -> "subscribe"
      [] step = "subscribe" -> "commit"
      [] step = "commit" -> "spawn"
      [] step = "spawn" -> "done"

\* self.sender.reserve().await?: a permit when the queue has a free slot
SendReserve(i, cmd) ==
    /\ sends[i].pc = "idle"
    /\ \A j \in SendIds : j < i => sends[j].pc # "idle"
    /\ SocketAlive
    /\ ~RxClosed
    /\ SlotsUsed < QueueCapacity
    /\ sends' = [sends EXCEPT ![i] = [NoSend EXCEPT !.pc = SendStepAfter("reserve"),
                                      !.cmd = cmd, !.permit = TRUE]]
    /\ UNCHANGED << printer, clone, taskState, taskPc, abortReq, transport, outq, commitLog,
                    written, subs, corr, published, inRead, buf, nReads, nTry >>
    /\ UNCHANGED << serVars, handleVars >>

SendReserveFailClaims(on, i, cmd) ==
    /\ sends[i].pc = "idle"
    /\ \A j \in SendIds : j < i => sends[j].pc # "idle"
    /\ RxClosed
    /\ sends' = [sends EXCEPT ![i] = [NoSend EXCEPT !.pc = "failed", !.cmd = cmd]]
    /\ lastCall' = Returned("send", on, "SendReserve")
    /\ counter' = FetchAdd(counter)
    /\ claimLog' = Append(claimLog, [t |-> 0, seq |-> counter])
    /\ UNCHANGED << ser, returned, nSetSeq, startCounter, lastSet >>
    /\ UNCHANGED << printer, clone, taskState, taskPc, abortReq, transport, outq, commitLog,
                    written, subs, corr, published, inRead, buf, nReads, nTry, prior, readCall, dropped, macVars, old >>

\* reserve() on a closed queue: the SendError becomes Error::SendReserve through
\* the ? of line 116, the call returns
SendReserveFailVia(on, i, cmd) ==
    /\ sends[i].pc = "idle"
    /\ \A j \in SendIds : j < i => sends[j].pc # "idle"
    /\ RxClosed
    /\ sends' = [sends EXCEPT ![i] = [NoSend EXCEPT !.pc = "failed", !.cmd = cmd]]
    /\ lastCall' = Returned("send", on, "SendReserve")
    /\ UNCHANGED << printer, clone, taskState, taskPc, abortReq, transport, outq, commitLog,
                    written, subs, corr, published, inRead, buf, nReads, nTry, prior, readCall, dropped, macVars, old >>
    /\ UNCHANGED serVars

\* Socket::send on a socket whose queue is closed
SendReserveFail(i, cmd) ==
    \E on \in { "printer", "clone" } : SocketOn(on) /\ SendReserveFailVia(on, i, cmd)

\* let (sequence, bytes) = self.serializer.serialize(gcode)
SendSerialize(i) ==
    /\ sends[i].pc = "serialize"
    /\ sends' = [sends EXCEPT ![i].pc = SendStepAfter("serialize"),
                              ![i].seq = counter,
                              ![i].bytes = SequencedLine(counter, sends[i].cmd)]
    /\ counter' = FetchAdd(counter)
    /\ claimLog' = Append(claimLog, [t |-> 0, seq |-> counter])
    /\ UNCHANGED << ser, returned, nSetSeq, startCounter, lastSet >>
    /\ UNCHANGED << printer, clone, taskState, taskPc, abortReq, transport, outq, commitLog,
                    written, subs, corr, published, inRead, buf, nReads, nTry >>
    /\ UNCHANGED handleVars

\* let sequenced_ok_watch = self.subscribe_lines()
SendSubscribe(i) ==
    /\ sends[i].pc = "subscribe"
    /\ sends' = [sends EXCEPT ![i].pc = SendStepAfter("subscribe")]
    /\ subs' = [subs EXCEPT ![i] = Resubscribe]
    /\ UNCHANGED << printer, clone, taskState, taskPc, abortReq, transport, outq, commitLog,
                    written, corr, published, inRead, buf, nReads, nTry >>
    /\ UNCHANGED << serVars, handleVars >>

\* one line of the queue: its position in the commit order, who committed it, its bytes
Entry(kind, id, bytes) == [k |-> Len(commitLog) + 1, kind |-> kind, id |-> id, bytes |-> bytes]

EnqueueFront(q, e) == << e >> \o q

\* the mpsc list: a committed value goes behind the values already there
Enqueue(q, e) == Append(q, e)

\* send_slot.send(bytes): the value takes the reserved slot; a value sent after
\* the receiver is gone is never received
SendCommit(i) ==
    /\ sends[i].pc = "commit"
    /\ sends' = [sends EXCEPT ![i].pc = SendStepAfter("commit"), ![i].permit = FALSE,
                              ![i].commitPub = Len(published)]
    /\ commitLog' = Append(commitLog, Entry("send", i, sends[i].bytes))
    /\ outq' = IF RxClosed THEN outq ELSE Enqueue(outq, Entry("send", i, sends[i].bytes))
    /\ UNCHANGED << printer, clone, taskState, taskPc, abortReq, transport,
                    written, subs, corr, published, inRead, buf, nReads, nTry >>
    /\ UNCHANGED << serVars, handleVars >>

\* tokio::task::spawn(search_for_sequence(sequence, sequenced_ok_watch)); Ok(handle)
SendSpawn(i) ==
    /\ sends[i].pc = "spawn"
    /\ sends' = [sends EXCEPT ![i].pc = SendStepAfter("spawn")]
    /\ corr' = [corr EXCEPT ![i] = [NoCorr EXCEPT !.state = "waiting",
                                    !.sequence = sends[i].seq]]
    /\ UNCHANGED << printer, clone, taskState, taskPc, abortReq, transport, outq, commitLog,
                    written, subs, published, inRead, buf, nReads, nTry >>
    /\ UNCHANGED << serVars, handleVars >>

\* self.sender.try_send(bytes)?: the bytes take a free slot of an open queue; the
\* TrySendError (Closed before Full) becomes Error::Sender through the ?
TrySendVia(on, kind, bytes) ==
    /\ nTry' = nTry + 1
    /\ IF ~RxClosed /\ SlotsUsed < QueueCapacity
       THEN /\ commitLog' = Append(commitLog, Entry(kind, nTry + 1, bytes))
            /\ outq' = Enqueue(outq, Entry(kind, nTry + 1, bytes))
            /\ lastCall' = Returned(kind, on, "none")
       ELSE /\ UNCHANGED << commitLog, outq >>
            /\ lastCall' = Returned(kind, on, IF RxClosed THEN "Sender(Closed)"
                                                          ELSE "Sender(Full)")
    /\ UNCHANGED << printer, clone, taskState, taskPc, abortReq, transport,
                    written, sends, subs, corr, published, inRead, buf, nReads, prior, readCall, dropped, macVars, old >>
    /\ UNCHANGED serVars

\* Socket::send_unsequenced and Socket::send_raw: try_send of the bytes
TrySend(kind, bytes) ==
    \E on \in { "printer", "clone" } : SocketOn(on) /\ TrySendVia(on, kind, bytes)

\* send_unsequenced(gcode)
SendUnsequenced(cmd) == TrySend("unsequenced", SerializeUnsequenced(cmd))

\* send_raw(gcode)
SendRaw(bytes) == TrySend("raw", bytes)


(***************************************************************************)
(* The broadcast channel, seen from one receiver.  cursor counts the lines *)
(* of the log the receiver has passed; the channel keeps the last 64.      *)
(***************************************************************************)
\* broadcast::Receiver::recv: what the next call yields
RecvOutcome(sub) ==
    IF sub.cursor < Len(published) - BroadcastCapacity THEN "lagged"
    ELSE IF sub.cursor < Len(published) THEN "value"
    ELSE IF TxClosed THEN "closed"
    ELSE "pending"

RecvValueLatest(sub) ==
    [sub EXCEPT !.cursor = Len(published), !.got = Append(@, published[Len(published)])]

\* recv returning Ok(line): the receiver moves one line on
RecvValue(sub) ==
    [sub EXCEPT !.cursor = @ + 1, !.got = Append(@, published[sub.cursor + 1])]

\* recv returning Err(Lagged): the receiver moves to the oldest line still kept
RecvLagged(sub) ==
    [sub EXCEPT !.cursor = Len(published) - BroadcastCapacity, !.lagged = TRUE]

Dropped(sub) == [sub EXCEPT !.state = "dropped"]

LiveReceivers == { s \in SubIds : subs[s].state = "open" }

(***************************************************************************)
(* search_for_sequence, one action per recv().await.                       *)
(***************************************************************************)
MatchesAnySequence(sequence, resp) ==
    resp.tag \in { "SequencedOk", "Resend" }

\* the two match arms: Ok(SequencedOk(seq)) if seq == sequence, Ok(Resend(seq)) if seq == sequence
Matches(sequence, resp) ==
    \/ resp.tag = "SequencedOk" /\ resp.n = sequence
    \/ resp.tag = "Resend" /\ resp.n = sequence

CorrRecvRetransmits(i) ==
    /\ corr[i].state = "waiting"
    /\ LET out == RecvOutcome(subs[i])
           line == published[subs[i].cursor + 1]
       IN  /\ out # "pending"
           /\ CASE out = "value" ->
                    \E resp \in { Classify(line) } :
                    IF Matches(corr[i].sequence, resp)
                    THEN /\ corr' = [corr EXCEPT ![i].state = "resolved",
                                                 ![i].result = resp,
                                                 ![i].why = "match"]
                         /\ subs' = [subs EXCEPT ![i] = Dropped(RecvValue(@))]
                         /\ outq' = IF resp.tag = "Resend" /\ ~RxClosed
                                    THEN outq \o SelectSeq(commitLog,
                                                    LAMBDA e : e.kind = "send" /\ e.id = i)
                                    ELSE outq
                    ELSE /\ subs' = [subs EXCEPT ![i] = RecvValue(@)]
                         /\ UNCHANGED << corr, outq >>
                [] out = "lagged" ->
                    /\ corr' = [corr EXCEPT ![i].state = "resolved",
                                            ![i].result = PlainOk,
                                            ![i].why = "lagged"]
                    /\ subs' = [subs EXCEPT ![i] = Dropped(RecvLagged(@))]
                    /\ UNCHANGED outq
                [] out = "closed" ->
                    /\ corr' = [corr EXCEPT ![i].state = "resolved",
                                            ![i].result = PlainOk,
                                            ![i].why = "closed"]
                    /\ subs' = [subs EXCEPT ![i] = Dropped(@)]
                    /\ UNCHANGED outq
    /\ UNCHANGED << printer, clone, taskState, taskPc, abortReq, transport, commitLog,
                    written, sends, published, inRead, buf, nReads, nTry >>
    /\ UNCHANGED << serVars, handleVars >>

\* while let Ok(resp) = responses.recv().await: an Err (Lagged or Closed) ends the
\* loop, and the function returns Response::Ok
CorrRecv(i) ==
    /\ corr[i].state = "waiting"
    /\ LET out == RecvOutcome(subs[i])
           line == published[subs[i].cursor + 1]
       IN  /\ out # "pending"
           /\ CASE out = "value" ->
                    \E resp \in { Classify(line) } :
                    IF Matches(corr[i].sequence, resp)
                    THEN /\ corr' = [corr EXCEPT ![i].state = "resolved",
                                                 ![i].result = resp,
                                                 ![i].why = "match"]
                         /\ subs' = [subs EXCEPT ![i] = Dropped(RecvValue(@))]
                    ELSE /\ subs' = [subs EXCEPT ![i] = RecvValue(@)]
                         /\ UNCHANGED corr
                [] out = "lagged" ->
                    /\ corr' = [corr EXCEPT ![i].state = "resolved",
                                            ![i].result = PlainOk,
                                            ![i].why = "lagged"]
                    /\ subs' = [subs EXCEPT ![i] = Dropped(RecvLagged(@))]
                [] out = "closed" ->
                    /\ corr' = [corr EXCEPT ![i].state = "resolved",
                                            ![i].result = PlainOk,
                                            ![i].why = "closed"]
                    /\ subs' = [subs EXCEPT ![i] = Dropped(@)]
    /\ UNCHANGED << printer, clone, taskState, taskPc, abortReq, transport, outq, commitLog,
                    written, sends, published, inRead, buf, nReads, nTry >>
    /\ UNCHANGED << serVars, handleVars >>

DropHandleAborts(i) ==
    /\ sends[i].pc = "done"
    /\ corr[i].state # "none"
    /\ dropped[i] = NotDropped
    /\ dropped' = [dropped EXCEPT ![i] = subs[i].cursor]
    /\ IF corr[i].state = "waiting"
       THEN /\ corr' = [corr EXCEPT ![i].state = "aborted"]
            /\ subs' = [subs EXCEPT ![i] = Dropped(@)]
       ELSE UNCHANGED << corr, subs >>
    /\ UNCHANGED << printer, clone, taskState, taskPc, abortReq, transport, outq, commitLog,
                    written, sends, published, inRead, buf, nReads, nTry >>
    /\ UNCHANGED << serVars, prior, lastCall, readCall, macVars, old >>

\* the caller drops the JoinHandle<Response> that send returned: the spawned
\* search_for_sequence is detached and runs on, its result is discarded
DropHandle(i) ==
    /\ sends[i].pc = "done"
    /\ corr[i].state # "none"
    /\ dropped[i] = NotDropped
    /\ dropped' = [dropped EXCEPT ![i] = subs[i].cursor]
    /\ UNCHANGED << coreVars, serVars, prior, lastCall, readCall, macVars, old >>

(***************************************************************************)
(* Macros: the table of aliases of print3rs-commands, and expand_all as    *)
(* the machine its recursion runs on: one action per call of expand and    *)
(* per return from it.                                                     *)
(***************************************************************************)
\* str::to_ascii_uppercase
UpperStr(w) == [i \in 1..Len(w) |-> ToAsciiUppercase(w[i])]

\* steps.into_iter().map(|s| s.as_ref().to_ascii_uppercase()).collect()
UpperAll(steps) == [i \in 1..Len(steps) |-> UpperStr(steps[i])]

\* HashMap::insert: the key gets the value, whatever it had
MapInsert(t, key, value) == [k \in DOMAIN t \cup { key } |-> IF k = key THEN value ELSE t[k]]

\* HashMap::remove
MapRemove(t, key) == [k \in DOMAIN t \ { key } |-> t[k]]

\* Macros::get: the look-up of the upper-cased name; << >> for None, << steps >> for Some
MacrosGet(t, name) ==
    IF UpperStr(name) \in DOMAIN t THEN << t[UpperStr(name)] >> ELSE << >>

\* everything but the macro table and the call of expand_all
NotMacros == << coreVars, serVars, prior, lastCall, readCall, dropped, old >>

\* Macros::add(name, steps): the name as it was given is the key
MacrosAdd(name, steps) ==
    /\ expand.pc = "idle"
    /\ macros' = MapInsert(macros, name, UpperAll(steps))
    /\ lastMacro' = [op |-> "add", name |-> name, steps |-> UpperAll(steps)]
    /\ UNCHANGED << expand, NotMacros >>

\* Macros::remove(name): the name as it was given is the key removed
MacrosRemove(name) ==
    /\ expand.pc = "idle"
    /\ macros' = MapRemove(macros, name)
    /\ lastMacro' = [op |-> "remove", name |-> name, steps |-> << >>]
    /\ UNCHANGED << expand, NotMacros >>

\* expand_all(codes) is called: let mut expanded = vec![]; for code in codes
ExpandAllBegin(codes) ==
    /\ expand.pc = "idle"
    /\ expand' = [codes |-> codes, stack |-> << codes >>, expanded |-> << >>, pc |-> "running"]
    /\ UNCHANGED << macros, lastMacro, NotMacros >>

\* one turn of the innermost loop: self.expand(expanded, code), which either
\* starts the loop over the expansion of code (a frame more on the stack, as long
\* as the stack has room) or pushes the upper-cased code; a loop that has
\* visited all its codes returns
ExpandStep ==
    /\ expand.pc = "running"
    /\ LET frame == Head(expand.stack)
           below == Tail(expand.stack)
       IN  IF frame = << >>
           THEN expand' = [expand EXCEPT !.stack = below,
                                         !.pc = IF below = << >> THEN "done" ELSE "running"]
           ELSE LET code == Head(frame)
                    found == MacrosGet(macros, code)
                    rest == << Tail(frame) >> \o below
                IN  IF found = << >>
                    THEN expand' = [expand EXCEPT !.stack = rest,
                                                  !.expanded = Append(@, UpperStr(code))]
                    ELSE IF Len(expand.stack) < StackDepth
                    THEN expand' = [expand EXCEPT !.stack = << found[1] >> \o rest]
                    ELSE expand' = [expand EXCEPT !.pc = "overflow"]
    /\ UNCHANGED << macros, lastMacro, NotMacros >>

\* expand_all returns the vector; the record keeps it as the last result
ExpandAllReturn ==
    /\ expand.pc = "done"
    /\ expand' = [expand EXCEPT !.pc = "idle"]
    /\ UNCHANGED << macros, lastMacro, NotMacros >>

(***************************************************************************)
(* start_print_file: the task that sends the lines of a file through a     *)
(* clone of the printer's socket.                                          *)
(***************************************************************************)
\* file.lines(): the lines of the file, in file order
JobFile == << G1234, M1234 >>

\* the loop reaches line i: the first line, or the line after one whose
\* socket.send(line).await?.await? has yielded the correlator's result
JobAt(i) ==
    /\ i \in 1..Len(JobFile)
    /\ i > 1 => (sends[i - 1].pc = "done" /\ corr[i - 1].state = "resolved")
    /\ SocketOn("clone")

\* socket.send(line) of line i passes reserve
JobSend(i) == JobAt(i) /\ SendReserve(i, JobFile[i])

\* socket.send(line) of line i fails at reserve: the ? returns from the task
JobSendFail(i) == JobAt(i) /\ SendReserveFailVia("clone", i, JobFile[i])

(***************************************************************************)
(* printer_com_task.                                                       *)
(***************************************************************************)
\* a Sender of the queue is alive: the printer's socket or the clone
SendersAlive == printer = "Connected" \/ clone = "alive"

\* the task's future is dropped: the queue's receiver (with what it buffers), the
\* broadcast sender, the buffer and the transport go with it
TaskEnds ==
    /\ taskState' = "ended"
    /\ taskPc' = "select"
    /\ outq' = << >>
    /\ buf' = << >>

\* buf.iter().position(|b| *b == b'\n'), 1-based; 0 when there is no newline
NewlinePos(b) ==
    LET at == { i \in 1..Len(b) : b[i] = NL }
    IN  IF at = {} THEN 0 ELSE CHOOSE i \in at : \A j \in at : i <= j

SplitToDropsNewline(b, n) == << SubSeq(b, 1, n - 1), SubSeq(b, n + 1, Len(b)) >>

\* buf.split_to(n + 1) for the 0-based n of the code: the line with its newline, and the rest
SplitTo(b, n) == << SubSeq(b, 1, n), SubSeq(b, n + 1, Len(b)) >>

TaskDequeueIgnoresError ==
    /\ taskState = "running"
    /\ taskPc = "select"
    /\ outq # << >>
    /\ IF transport # "broken"
       THEN /\ written' = Append(written, Head(outq))
            /\ outq' = Tail(outq)
            /\ taskPc' = "flush"
            /\ UNCHANGED << taskState, buf >>
       ELSE /\ outq' = Tail(outq)
            /\ UNCHANGED << taskState, taskPc, buf, written >>
    /\ UNCHANGED << printer, clone, abortReq, transport, commitLog,
                    sends, subs, corr, published, inRead, nReads, nTry >>
    /\ UNCHANGED << serVars, handleVars >>

\* Some(line) = gcoderx.recv() => write_all(&line)
TaskDequeue ==
    /\ taskState = "running"
    /\ taskPc = "select"
    /\ outq # << >>
    /\ IF transport # "broken"
       THEN /\ written' = Append(written, Head(outq))
            /\ outq' = Tail(outq)
            /\ taskPc' = "flush"
            /\ UNCHANGED << taskState, buf >>
       ELSE /\ TaskEnds
            /\ UNCHANGED written
    /\ UNCHANGED << printer, clone, abortReq, transport, commitLog,
                    sends, subs, corr, published, inRead, nReads, nTry >>
    /\ UNCHANGED << serVars, handleVars >>

TaskFlushReturns ==
    /\ taskState = "running"
    /\ taskPc = "flush"
    /\ TaskEnds
    /\ UNCHANGED << printer, clone, abortReq, transport, commitLog, written,
                    sends, subs, corr, published, inRead, nReads, nTry >>
    /\ UNCHANGED << serVars, handleVars >>

\* transport.flush()
TaskFlush ==
    /\ taskState = "running"
    /\ taskPc = "flush"
    /\ IF transport # "broken"
       THEN /\ taskPc' = "select"
            /\ UNCHANGED << taskState, outq, buf >>
       ELSE TaskEnds
    /\ UNCHANGED << printer, clone, abortReq, transport, commitLog, written,
                    sends, subs, corr, published, inRead, nReads, nTry >>
    /\ UNCHANGED << serVars, handleVars >>

ReadReplacesBuf(b, chunk) == chunk

\* read_buf(&mut buf): the bytes read go behind what the buffer holds
ReadBuf(b, chunk) == b \o chunk

\* Ok(1..) = transport.read_buf(&mut buf): the bytes are appended to buf
TaskRead(chunk) ==
    /\ taskState = "running"
    /\ taskPc = "select"
    /\ transport = "open"
    /\ nReads' = nReads + 1
    /\ inRead' = inRead \o chunk
    /\ buf' = ReadBuf(buf, chunk)
    /\ taskPc' = IF NewlinePos(ReadBuf(buf, chunk)) # 0 THEN "split" ELSE "select"
    /\ UNCHANGED << printer, clone, taskState, abortReq, transport, outq, commitLog,
                    written, sends, subs, corr, published >>
    /\ UNCHANGED nTry
    /\ UNCHANGED << serVars, handleVars >>

TaskPublishIgnoresNoReceiver ==
    /\ taskState = "running"
    /\ taskPc = "split"
    /\ LET parts == SplitTo(buf, NewlinePos(buf))
       IN  /\ published' = IF LiveReceivers # {} THEN Append(published, parts[1]) ELSE published
           /\ buf' = parts[2]
           /\ taskPc' = IF NewlinePos(parts[2]) # 0 THEN "split" ELSE "select"
           /\ UNCHANGED << taskState, outq >>
    /\ UNCHANGED << printer, clone, abortReq, transport, commitLog, written,
                    sends, subs, corr, inRead, nReads, nTry >>
    /\ UNCHANGED << serVars, handleVars >>

\* one turn of the while loop: split the first line off and publish it; a send
\* with no receiver makes the task return
TaskPublish ==
    /\ taskState = "running"
    /\ taskPc = "split"
    /\ LET parts == SplitTo(buf, NewlinePos(buf))
       IN  IF LiveReceivers # {}
           THEN /\ published' = Append(published, parts[1])
                /\ buf' = parts[2]
                /\ taskPc' = IF NewlinePos(parts[2]) # 0 THEN "split" ELSE "select"
                /\ UNCHANGED << taskState, outq >>
           ELSE /\ TaskEnds
                /\ UNCHANGED published
    /\ UNCHANGED << printer, clone, abortReq, transport, commitLog, written,
                    sends, subs, corr, inRead, nReads, nTry >>
    /\ UNCHANGED << serVars, handleVars >>

\* else => return: recv() yields None (no sender left, nothing buffered) and
\* read_buf yields Ok(0) or Err
TaskExit ==
    /\ taskState = "running"
    /\ taskPc = "select"
    /\ outq = << >>
    /\ ~SendersAlive
    /\ transport # "open"
    /\ TaskEnds
    /\ UNCHANGED << printer, clone, abortReq, transport, commitLog, written,
                    sends, subs, corr, published, inRead, nReads, nTry >>
    /\ UNCHANGED << serVars, handleVars >>

\* the abort takes effect at an await point of the task
TaskAborted ==
    /\ taskState = "running"
    /\ abortReq
    /\ taskPc \in { "select", "flush" }
    /\ TaskEnds
    /\ UNCHANGED << printer, clone, abortReq, transport, commitLog, written,
                    sends, subs, corr, published, inRead, nReads, nTry >>
    /\ UNCHANGED << serVars, handleVars >>

DisconnectDetaches ==
    /\ printer = "Connected"
    /\ InFlight => clone = "alive"
    /\ printer' = "Disconnected"
    /\ subs' = [subs EXCEPT ![SockSub] = Dropped(@)]
    /\ UNCHANGED << clone, taskState, taskPc, abortReq, transport, outq, commitLog, written,
                    sends, corr, published, inRead, buf, nReads, nTry >>
    /\ UNCHANGED << serVars, handleVars >>

(***************************************************************************)
(* The Printer handle, the clone of its socket, the transport's far end.   *)
(***************************************************************************)
\* Printer::disconnect, or the Printer dropped: Drop aborts com_task, then the
\* socket (queue sender, broadcast receiver) is dropped.  A send in progress
\* borrows a socket, so one of the two sockets outlives it
Disconnect ==
    /\ printer = "Connected"
    /\ InFlight => clone = "alive"
    /\ printer' = "Disconnected"
    /\ abortReq' = TRUE
    /\ subs' = [subs EXCEPT ![SockSub] = Dropped(@)]
    /\ UNCHANGED << clone, taskState, taskPc, transport, outq, commitLog, written,
                    sends, corr, published, inRead, buf, nReads, nTry >>
    /\ UNCHANGED << serVars, handleVars >>

\* printer.socket()?.clone()
CloneSocket ==
    /\ printer = "Connected"
    /\ clone = "none"
    /\ clone' = "alive"
    /\ subs' = [subs EXCEPT ![CloneSub] = Resubscribe]
    /\ UNCHANGED << printer, taskState, taskPc, abortReq, transport, outq, commitLog, written,
                    sends, corr, published, inRead, buf, nReads, nTry >>
    /\ UNCHANGED << serVars, handleVars >>

\* the clone is dropped
DropClone ==
    /\ clone = "alive"
    /\ InFlight => printer = "Connected"
    /\ clone' = "dropped"
    /\ subs' = [subs EXCEPT ![CloneSub] = Dropped(@)]
    /\ UNCHANGED << printer, taskState, taskPc, abortReq, transport, outq, commitLog, written,
                    sends, corr, published, inRead, buf, nReads, nTry >>
    /\ UNCHANGED << serVars, handleVars >>

\* Socket::read_next_line on the clone: the next line of its own receiver; an
\* Err(Lagged) reaches todo!(), which panics; Err(Closed) is returned as
\* Disconnected and changes nothing
ReadRecvSharedCursor ==
    /\ clone = "alive"
    /\ RecvOutcome(subs[CloneSub]) = "value"
    /\ subs' = [subs EXCEPT ![CloneSub] = RecvValue(@), ![SockSub] = RecvValue(@)]
    /\ UNCHANGED << printer, clone, taskState, taskPc, abortReq, transport, outq, commitLog,
                    written, sends, corr, published, inRead, buf, nReads, nTry >>

\* self.responses.recv() in Socket::read_next_line on the clone
ReadRecv ==
    /\ clone = "alive"
    /\ LET out == RecvOutcome(subs[CloneSub])
       IN  /\ out \in { "value", "lagged" }
           /\ IF out = "value"
              THEN /\ subs' = [subs EXCEPT ![CloneSub] = RecvValue(@)]
                   /\ UNCHANGED clone
              ELSE /\ subs' = [subs EXCEPT ![CloneSub] = Dropped(RecvLagged(@))]
                   /\ clone' = "panicked"
    /\ UNCHANGED << printer, taskState, taskPc, abortReq, transport, outq, commitLog, written,
                    sends, corr, published, inRead, buf, nReads, nTry >>

\* a call of read_next_line on the clone that finds its outcome at the first poll
ReadNextLine == ReadRecv /\ UNCHANGED << serVars, handleVars >>

\* read_next_line is called on the clone: the future is polled for the first time
ReadBegin ==
    /\ clone = "alive"
    /\ ~readCall.active
    /\ readCall' = [active |-> TRUE, began |-> Len(published), idx |-> 0]
    /\ UNCHANGED << coreVars, serVars, prior, lastCall, dropped, macVars, old >>

\* the call in progress returns what self.responses.recv() yields
ReadReturn ==
    /\ readCall.active
    /\ ReadRecv
    /\ readCall' = [readCall EXCEPT !.active = FALSE, !.idx = subs'[CloneSub].cursor]
    /\ UNCHANGED << serVars, prior, lastCall, dropped, macVars, old >>

\* Socket::read_next_line on the clone when the broadcast is closed and every
\* line kept for the clone was read: Err(DisconnectedError::Disconnected)
ReadNextLineClosed ==
    /\ clone = "alive"
    /\ RecvOutcome(subs[CloneSub]) = "closed"
    /\ lastCall' = Returned("read_next_line", "clone", "Disconnected")
    /\ UNCHANGED << coreVars, prior, readCall, dropped, macVars, old >>
    /\ UNCHANGED serVars

(***************************************************************************)
(* The methods of Printer.                                                 *)
(***************************************************************************)
SocketOfAny(p) == "Ok"

\* Printer::socket and Printer::socket_mut: the socket of a Connected printer,
\* Err(DisconnectedError::Disconnected) otherwise
SocketOf(p) == IF p = "Connected" THEN "Ok" ELSE "Disconnected"

\* self.socket()? on a Disconnected printer: the method returns the error, which
\* is Error::Disconnected where the method's error type is Error
Refused(op) ==
    /\ lastCall' = Returned(op, "printer", "Disconnected")
    /\ UNCHANGED << coreVars, prior, readCall, dropped, macVars, old >>
    /\ UNCHANGED serVars

\* printer.socket()
PrinterSocket ==
    /\ IF SocketOf(printer) = "Disconnected"
       THEN Refused("socket")
       ELSE /\ lastCall' = Returned("socket", "printer", "none")
            /\ UNCHANGED << coreVars, prior, readCall, dropped, macVars, old >>
            /\ UNCHANGED serVars

\* Printer::subscribe_lines: a resubscribed receiver, which the caller drops here
PrinterSubscribeLines ==
    /\ IF SocketOf(printer) = "Disconnected"
       THEN Refused("subscribe_lines")
       ELSE /\ lastCall' = Returned("subscribe_lines", "printer", "none")
            /\ UNCHANGED << coreVars, prior, readCall, dropped, macVars, old >>
            /\ UNCHANGED serVars

\* Printer::send up to the first statement of Socket::send
PrinterSend(i, cmd) ==
    /\ sends[i].pc = "idle"
    /\ IF SocketOf(printer) = "Disconnected"
       THEN Refused("send")
       ELSE \/ SendReserve(i, cmd)
            \/ SendReserveFailVia("printer", i, cmd)

\* Printer::send_unsequenced
PrinterSendUnsequenced(cmd) ==
    IF SocketOf(printer) = "Disconnected"
    THEN Refused("unsequenced")
    ELSE TrySendVia("printer", "unsequenced", SerializeUnsequenced(cmd))

\* Printer::send_raw
PrinterSendRaw(bytes) ==
    IF SocketOf(printer) = "Disconnected"
    THEN Refused("raw")
    ELSE TrySendVia("printer", "raw", bytes)

\* Printer::read_next_line: the next line of the printer's own receiver; on
\* Err(Closed) inspect_err runs self.disconnect() before the error is returned;
\* Err(Lagged) reaches todo!() and the caller panics holding the printer.  The
\* call takes &mut self: no send borrows the printer's socket
PrinterReadNextLine ==
    /\ InFlight => clone = "alive"
    /\ IF SocketOf(printer) = "Disconnected"
       THEN Refused("read_next_line")
       ELSE LET out == RecvOutcome(subs[SockSub])
            IN  /\ out # "pending"
                /\ CASE out = "value" ->
                         /\ subs' = [subs EXCEPT ![SockSub] = RecvValue(@)]
                         /\ lastCall' = Returned("read_next_line", "printer", "none")
                         /\ UNCHANGED << printer, abortReq >>
                     [] out = "lagged" ->
                         /\ subs' = [subs EXCEPT ![SockSub] = Dropped(RecvLagged(@))]
                         /\ lastCall' = Returned("read_next_line", "printer", "panic")
                         /\ printer' = "Panicked"
                         /\ UNCHANGED abortReq
                     [] out = "closed" ->
                         /\ subs' = [subs EXCEPT ![SockSub] = Dropped(@)]
                         /\ lastCall' = Returned("read_next_line", "printer", "Disconnected")
                         /\ printer' = "Disconnected"
                         /\ abortReq' = TRUE
                /\ UNCHANGED << clone, taskState, taskPc, transport, outq, commitLog, written,
                                sends, corr, published, inRead, buf, nReads, nTry, prior, readCall, dropped, macVars, old >>
                /\ UNCHANGED serVars

\* Printer::disconnect on a Disconnected printer: mem::take leaves Disconnected and
\* drops a Disconnected value, which aborts nothing
DisconnectIdle ==
    /\ printer = "Disconnected"
    /\ lastCall' = Returned("disconnect", "printer", "none")
    /\ UNCHANGED << coreVars, prior, readCall, dropped, macVars, old >>
    /\ UNCHANGED serVars

DropTaskDetaches(task) == task

\* Drop for Printer: com_task.abort()
DropTask(task) == [task EXCEPT !.abort = TRUE]

\* a Socket cloned from the connection the handle is about to replace keeps its
\* Sender, its Receiver and its Arc of the counter (Clone for Socket): the old
\* queue, broadcast and serializer live on with it; g is the place the old task
\* takes in prior
ArchiveOf(g) ==
    [clone |-> "alive", g |-> g,
     outq |-> [k \in 1..Len(outq) |-> outq[k].bytes],
     transport |-> transport,
     written |-> [k \in 1..Len(written) |-> written[k].bytes],
     published |-> published, cursor |-> subs[CloneSub].cursor, got |-> << >>,
     counter |-> counter, tries |-> 0, reads |-> 0]

\* Printer::connect: *self = Printer::new(port).  The new queue, broadcast, task
\* and serializer are made first, then the value the handle held is dropped; what
\* belonged to the previous connection leaves the model's view, but for its task
\* (prior) and for what a clone of its socket still holds (old)
Connect ==
    /\ InFlight => clone = "alive"
    /\ prior' = Append(prior, IF printer = "Connected"
                              THEN DropTask([state |-> taskState, abort |-> abortReq])
                              ELSE [state |-> taskState, abort |-> abortReq])
    /\ printer' = "Connected"
    /\ clone' = "none"
    /\ taskState' = "running"
    /\ taskPc' = "select"
    /\ abortReq' = FALSE
    /\ transport' = "open"
    /\ outq' = << >>
    /\ commitLog' = << >>
    /\ written' = << >>
    /\ sends' = [i \in SendIds |-> NoSend]
    /\ published' = << >>
    /\ subs' = [s \in SubIds |-> IF s = SockSub
                                  THEN [NoSub EXCEPT !.state = "open"] ELSE NoSub]
    /\ corr' = [i \in SendIds |-> NoCorr]
    /\ inRead' = << >>
    /\ buf' = << >>
    /\ nReads' = 0
    /\ nTry' = 0
    /\ counter' = FirstSequence
    /\ claimLog' = << >>
    /\ dropped' = [i \in SendIds |-> NotDropped]
    /\ old' = IF clone = "alive" THEN ArchiveOf(Len(prior) + 1) ELSE old
    /\ UNCHANGED << ser, returned, nSetSeq, startCounter, lastSet, lastCall, readCall, macVars >>

\* the abort of a previous connection's task takes effect
PriorAborted(g) ==
    /\ g \in 1..Len(prior)
    /\ prior[g].state = "running"
    /\ prior[g].abort
    /\ prior' = [prior EXCEPT ![g].state = "ended"]
    /\ UNCHANGED << coreVars, lastCall, readCall, dropped, macVars, old >>
    /\ UNCHANGED serVars

(***************************************************************************)
(* The connection before this one, as far as a Socket cloned from it can   *)
(* reach it: the old task until its abort takes effect, the old queue, the *)
(* old broadcast and the old counter.                                      *)
(***************************************************************************)
OldTries == 2
OldReads == 1

\* the task of the old connection has not ended: its queue and broadcast are open
OldTaskRuns == old.g # 0 /\ prior[old.g].state = "running"

NotOld == << coreVars, serVars, readCall, dropped, macVars >>

\* the old task, not yet cancelled, takes a line from the old queue and writes it
\* to the old transport; a failed write makes it return
OldTaskWrite ==
    /\ OldTaskRuns
    /\ old.outq # << >>
    /\ IF old.transport # "broken"
       THEN /\ old' = [old EXCEPT !.outq = Tail(@), !.written = Append(@, Head(old.outq))]
            /\ UNCHANGED prior
       ELSE /\ old' = [old EXCEPT !.outq = << >>]
            /\ prior' = [prior EXCEPT ![old.g].state = "ended"]
    /\ UNCHANGED << NotOld, lastCall >>

\* the old task, not yet cancelled, reads a line from the old transport and
\* publishes it on the old broadcast
OldTaskPublish(line) ==
    /\ OldTaskRuns
    /\ old.transport = "open"
    /\ old.clone = "alive"
    /\ old.reads < OldReads
    /\ old' = [old EXCEPT !.published = Append(@, line), !.reads = @ + 1]
    /\ UNCHANGED << NotOld, prior, lastCall >>

OldCloneTrySendReaches(bytes) ==
    /\ old.clone = "alive"
    /\ old.tries < OldTries
    /\ IF OldTaskRuns /\ Len(old.outq) < QueueCapacity
       THEN /\ old' = [old EXCEPT !.outq = Append(@, bytes), !.tries = @ + 1]
            /\ outq' = IF taskState = "running"
                       THEN Enqueue(outq, Entry("raw", nTry + 1, bytes)) ELSE outq
            /\ lastCall' = Returned("raw", "old clone", "none")
       ELSE /\ old' = [old EXCEPT !.tries = @ + 1]
            /\ UNCHANGED outq
            /\ lastCall' = Returned("raw", "old clone",
                                    IF OldTaskRuns THEN "Sender(Full)" ELSE "Sender(Closed)")
    /\ UNCHANGED << printer, clone, taskState, taskPc, abortReq, transport, commitLog,
                    written, sends, subs, corr, published, inRead, buf, nReads, nTry >>
    /\ UNCHANGED << serVars, readCall, dropped, macVars, prior >>

\* send_raw on the clone of the old socket: try_send on the old queue's Sender
OldCloneTrySend(bytes) ==
    /\ old.clone = "alive"
    /\ old.tries < OldTries
    /\ IF OldTaskRuns /\ Len(old.outq) < QueueCapacity
       THEN /\ old' = [old EXCEPT !.outq = Append(@, bytes), !.tries = @ + 1]
            /\ lastCall' = Returned("raw", "old clone", "none")
       ELSE /\ old' = [old EXCEPT !.tries = @ + 1]
            /\ lastCall' = Returned("raw", "old clone",
                                    IF OldTaskRuns THEN "Sender(Full)" ELSE "Sender(Closed)")
    /\ UNCHANGED << NotOld, prior >>

\* send on the clone of the old socket, its statements taken as one step: reserve
\* on the old queue (its error returned through ?), then the line numbered by the
\* old counter is committed to the old queue
OldCloneSend(cmd) ==
    /\ old.clone = "alive"
    /\ old.tries < OldTries
    /\ OldTaskRuns => Len(old.outq) < QueueCapacity
    /\ IF OldTaskRuns
       THEN /\ old' = [old EXCEPT !.outq = Append(@, SequencedLine(old.counter, cmd)),
                                  !.counter = FetchAdd(@), !.tries = @ + 1]
            /\ lastCall' = Returned("send", "old clone", "none")
       ELSE /\ old' = [old EXCEPT !.tries = @ + 1]
            /\ lastCall' = Returned("send", "old clone", "SendReserve")
    /\ UNCHANGED << NotOld, prior >>

\* read_next_line on the clone of the old socket: the next line of the old
\* broadcast, or Disconnected once the old task has dropped its Sender
OldCloneRead ==
    /\ old.clone = "alive"
    /\ IF old.cursor < Len(old.published)
       THEN /\ old' = [old EXCEPT !.cursor = @ + 1,
                                  !.got = Append(@, old.published[old.cursor + 1])]
            /\ UNCHANGED lastCall
       ELSE /\ ~OldTaskRuns
            /\ lastCall # Returned("read_next_line", "old clone", "Disconnected")
            /\ lastCall' = Returned("read_next_line", "old clone", "Disconnected")
            /\ UNCHANGED old
    /\ UNCHANGED << NotOld, prior >>

\* the far end closes its side: reads return Ok(0)
TransportEof ==
    /\ transport = "open"
    /\ transport' = "eof"
    /\ UNCHANGED << printer, clone, taskState, taskPc, abortReq, outq, commitLog, written,
                    sends, subs, corr, published, inRead, buf, nReads, nTry >>
    /\ UNCHANGED << serVars, handleVars >>

\* the device goes away: reads and writes fail
TransportBreak ==
    /\ transport # "broken"
    /\ transport' = "broken"
    /\ UNCHANGED << printer, clone, taskState, taskPc, abortReq, outq, commitLog, written,
                    sends, subs, corr, published, inRead, buf, nReads, nTry >>
    /\ UNCHANGED << serVars, handleVars >>


(***************************************************************************)
(* Specifications.                                                         *)
(***************************************************************************)
\* the commands the serializer threads serialize
SerCommands == { G1234 }
\* the commands the core sends
CoreCommands == { G1234 }
\* what one read of the transport returns when the firmware answers line by line
LineChunks == { OkLine(1), TempLine }
\* the answers to line 1, "ok 1\n" and "Resend: 1\n", and a read that returns
\* three lines that are not about it, "ok\nT:2\nok 7\n"
AnswerChunks == { OkLine(1), ResendLine(1), PlainOkLine \o TempLine \o OkLine(7) }
\* reads that cut lines anywhere: "ok", " 1\n", "\nT:2\nok"
ByteChunks == { OkWord, << Space, Digit0 + 1, NL >>, << NL >> \o TempLine \o OkWord }
\* the bytes given to send_raw: "M105\n"
RawBytes == << 77, 49, 48, 53, NL >>

\* every send of the behaviour has returned
SendsReturned == \A i \in 1..FewSends : sends[i].pc = "done"

\* the serializer alone: threads serializing through clones
SerNext ==
    \/ \E t \in Threads, cmd \in SerCommands :
          Len(claimLog) < MaxSer /\ SerClaim(t, cmd) /\ UNCHANGED << coreVars, handleVars >>
    \/ \E t \in Threads : SerWrite(t) /\ UNCHANGED << coreVars, handleVars >>
    \/ \E t \in Threads : SerFinish(t) /\ UNCHANGED << coreVars, handleVars >>

SerInit == InitSer /\ InitCore

SpecSer == SerInit /\ [][SerNext]_vars

\* Printer::new, a fresh serializer
Init == InitSer /\ counter = FirstSequence /\ InitCore

\* a fresh serializer: threads serializing through clones, and set_sequence at any moment
SetNext ==
    \/ \E t \in Threads, cmd \in SerCommands :
          Len(claimLog) < MaxSer /\ SerClaim(t, cmd) /\ UNCHANGED << coreVars, handleVars >>
    \/ \E t \in Threads : SerWrite(t) /\ UNCHANGED << coreVars, handleVars >>
    \/ \E t \in Threads : SerFinish(t) /\ UNCHANGED << coreVars, handleVars >>
    \/ \E k \in SetSeqValues : nSetSeq < MaxSetSeq /\ SetSequence(k) /\ UNCHANGED << coreVars, handleVars >>

SpecSet == Init /\ [][SetNext]_vars

\* one serializer, lines of every command at sequence numbers of every shape
FmtNext ==
    \/ \E cmd \in Commands : Len(claimLog) < FmtLines /\ SerClaim(1, cmd) /\ UNCHANGED << coreVars, handleVars >>
    \/ SerWrite(1) /\ UNCHANGED << coreVars, handleVars >>
    \/ SerFinish(1) /\ UNCHANGED << coreVars, handleVars >>
    \/ \E cmd \in Commands : SerUnsequenced(1, cmd) /\ UNCHANGED << coreVars, handleVars >>
    \/ \E k \in LineNumbers : lastSet = << >> /\ SetSequence(k) /\ UNCHANGED << coreVars, handleVars >>

SpecFmt == Init /\ [][FmtNext]_vars

\* a connected printer: a send, the background task, the correlator, disconnect,
\* a transport that fails
Next ==
    \/ \E i \in 1..FewSends, cmd \in CoreCommands : SendReserve(i, cmd)
    \/ \E i \in SendIds : SendSerialize(i)
    \/ \E i \in SendIds : SendSubscribe(i)
    \/ \E i \in SendIds : SendCommit(i)
    \/ \E i \in SendIds : SendSpawn(i)
    \/ \E i \in SendIds : CorrRecv(i)
    \/ TaskDequeue
    \/ TaskFlush
    \/ \E chunk \in LineChunks : nReads < SpecReads /\ TaskRead(chunk)
    \/ TaskPublish
    \/ TaskExit
    \/ TaskAborted
    \/ Disconnect
    \/ TransportBreak

Spec == Init /\ [][Next]_vars

\* the correlator: sends, then a firmware that answers
\* with acknowledgements, resend requests and unrelated lines, disconnect
CorrNext ==
    \/ \E i \in 1..FewSends, cmd \in CoreCommands : SendReserve(i, cmd)
    \/ \E i \in SendIds : SendSerialize(i)
    \/ \E i \in SendIds : SendSubscribe(i)
    \/ \E i \in SendIds : SendCommit(i)
    \/ \E i \in SendIds : SendSpawn(i)
    \/ \E i \in SendIds : CorrRecv(i)
    \/ \E chunk \in AnswerChunks : SendsReturned /\ nReads < CorrReads /\ TaskRead(chunk)
    \/ TaskPublish
    \/ TaskAborted
    \/ Disconnect

SpecCorr == Init /\ [][CorrNext]_vars

\* the outbound path: sends and try-sends from several producers, the task
\* writing, disconnect, a transport that fails
OutNext ==
    \/ \E i \in SendIds, cmd \in CoreCommands : SendReserve(i, cmd)
    \/ \E i \in SendIds, cmd \in CoreCommands : SendReserveFail(i, cmd)
    \/ \E i \in SendIds : SendSerialize(i)
    \/ \E i \in SendIds : SendSubscribe(i)
    \/ \E i \in SendIds : SendCommit(i)
    \/ \E i \in SendIds : SendSpawn(i)
    \/ nTry < MaxTrySends /\ SendUnsequenced(M1234)
    \/ nTry < MaxTrySends /\ SendRaw(RawBytes)
    \/ TaskDequeue
    \/ TaskFlush
    \/ TaskAborted
    \/ Disconnect
    \/ TransportBreak

SpecOut == Init /\ [][OutNext]_vars

\* the inbound path: reads that cut the byte stream anywhere, a clone of the
\* socket made at any moment and reading line by line
InNext ==
    \/ CloneSocket
    \/ ReadNextLine
    \/ \E chunk \in ByteChunks : nReads < InReads /\ TaskRead(chunk)
    \/ TaskPublish
    \/ TaskAborted
    \/ Disconnect

SpecIn == Init /\ [][InNext]_vars

\* a firmware that, once the sends have returned, reports and never acknowledges;
\* correlators that may be slow
LagNext ==
    \/ \E i \in 1..FewSends, cmd \in CoreCommands : SendReserve(i, cmd)
    \/ \E i \in SendIds : SendSerialize(i)
    \/ \E i \in SendIds : SendSubscribe(i)
    \/ \E i \in SendIds : SendCommit(i)
    \/ \E i \in SendIds : SendSpawn(i)
    \/ \E i \in SendIds : CorrRecv(i)
    \/ SendsReturned /\ nReads < LagReads /\ TaskRead(TempLine)
    \/ TaskPublish

SpecLag == Init /\ [][LagNext]_vars

\* disconnect while sends are in flight through a clone of the socket, a
\* firmware that acknowledges line 1
LiveNext ==
    \/ CloneSocket
    \/ \E i \in 1..FewSends, cmd \in CoreCommands : SendReserve(i, cmd)
    \/ \E i \in SendIds : SendSerialize(i)
    \/ \E i \in SendIds : SendSubscribe(i)
    \/ \E i \in SendIds : SendCommit(i)
    \/ \E i \in SendIds : SendSpawn(i)
    \/ \E i \in SendIds : CorrRecv(i)
    \/ nReads < LiveReads /\ TaskRead(OkLine(1))
    \/ TaskPublish
    \/ TaskAborted
    \/ Disconnect

\* the runtime keeps polling the tasks it holds: a correlator whose recv is ready
\* runs, the task runs on from a read to the publications, and an aborted task is
\* cancelled at its next await
SpecLive ==
    /\ Init
    /\ [][LiveNext]_vars
    /\ WF_vars(TaskAborted)
    /\ WF_vars(TaskPublish)
    /\ \A i \in SendIds : WF_vars(CorrRecv(i))

(***************************************************************************)
(* Claims about the serializer, checked under SpecSer.                     *)
(***************************************************************************)
AllIdle == \A t \in Threads : ser[t].pc = "idle"
ReturnedNumbers == { r.seq : r \in returned }

\* C1: N sequenced serializations through clones of one serializer that started
\* at 1, set_sequence never called: no number is handed out twice, and once the
\* N calls have returned the numbers returned are exactly 1..N.
C1_NumbersAreOneToN ==
    (startCounter = FirstSequence /\ nSetSeq = 0) =>
        /\ Cardinality(ReturnedNumbers) = Cardinality(returned)
        /\ AllIdle => ReturnedNumbers = 1..Len(claimLog)

\* three calls have returned, from two threads, one of them overtaken by another call
C1_Witness ==
    /\ startCounter = FirstSequence /\ nSetSeq = 0 /\ AllIdle
    /\ Cardinality(returned) = 3
    /\ \E r1, r2 \in returned : r1.t # r2.t /\ r1.raced

\* C2: the number a call returns is the number after 'N' in its own line, the
\* checksum after '*' is the XOR of the bytes before '*' (that number included),
\* and the number is the one this call claimed, not another call's.
C2_LineCarriesOwnNumber ==
    \A r \in returned :
        /\ IsSequencedLine(r.bytes)
        /\ LineSequence(r.bytes) = r.seq
        /\ LineChecksum(r.bytes) = ChecksumOf(0, LineChecked(r.bytes))
        /\ StartsWith(r.bytes, << UpperN >> \o Itoa(r.seq) \o RenderBody(r.cmd))
        /\ claimLog[r.idx] = [t |-> r.t, seq |-> r.seq]

\* a call returned after another thread claimed a number while it was running
C2_Witness == \E r \in returned : r.raced /\ r.seq = 1 /\ 2 \in ReturnedNumbers

(***************************************************************************)
(* Claims about Socket::send and the correlator.                           *)
(***************************************************************************)
\* the line of send i has been handed to the outbound queue
Committed(i) == \E n \in 1..Len(commitLog) : commitLog[n].kind = "send" /\ commitLog[n].id = i

\* the line of send i is in the queue, or has left it for the transport
QueuedOrWritten(i) ==
    \/ \E n \in 1..Len(outq) : outq[n].kind = "send" /\ outq[n].id = i
    \/ \E n \in 1..Len(written) : written[n].kind = "send" /\ written[n].id = i

\* C3 (checked under Spec): when the line of a send is committed to the queue its
\* response subscription is already open, opened at a point of the response
\* stream no later than the point of the commit; the subscription then delivers
\* every line published after that point, in order; and when send has returned,
\* the line was committed and its correlator has been started.
C3_SubscribedBeforeCommit ==
    \A i \in SendIds :
        /\ Committed(i) =>
              /\ subs[i].state # "none"
              /\ subs[i].start <= sends[i].commitPub
        /\ (subs[i].state # "none" /\ ~subs[i].lagged) =>
              subs[i].got = SubSeq(published, subs[i].start + 1, subs[i].cursor)
        /\ sends[i].pc = "done" =>
              /\ Committed(i)
              /\ corr[i].state # "none"
              /\ corr[i].sequence = sends[i].seq
              /\ QueuedOrWritten(i) \/ RxClosed

\* a send has returned; a line was published between its subscription and its
\* commit, another after the commit, and its correlator was handed both
C3_Witness ==
    \E i \in SendIds :
        /\ sends[i].pc = "done"
        /\ subs[i].start < sends[i].commitPub
        /\ Len(subs[i].got) >= 2
        /\ QueuedOrWritten(i)

\* the line acknowledges sequence number n or asks to resend it
Acks(n, line) == Classify(line) \in { SequencedOk(n), Resend(n) }

\* the first line of lines that is about sequence number n; 0 when there is none
FirstAck(n, lines) ==
    LET at == { k \in 1..Len(lines) : Acks(n, lines[k]) }
    IN  IF at = {} THEN 0 ELSE CHOOSE k \in at : \A j \in at : k <= j

\* C4 (checked under SpecCorr): the correlator of a send that claimed number s is
\* resolved by the first line delivered to it that is "ok s" or a resend request
\* for s, with that line's classification; a plain ok, an ok or resend for another
\* number and any other line leave it waiting, until the response stream closes.
C4_ResolvesAtFirstAck ==
    \A i \in SendIds :
        corr[i].state # "none" =>
            LET s == sends[i].seq
                first == FirstAck(s, subs[i].got)
            IN  /\ corr[i].sequence = s
                /\ first # 0 =>
                      /\ corr[i].state = "resolved"
                      /\ first = Len(subs[i].got)
                      /\ corr[i].result = Classify(subs[i].got[first])
                /\ first = 0 =>
                      \/ corr[i].state = "waiting"
                      \/ corr[i].result = PlainOk /\ TxClosed

\* a correlator resolved by the resend request for its number, which came after a
\* plain ok, a temperature line and the ok for another number, and before its own ok
C4_Witness ==
    \E i \in SendIds :
        /\ corr[i].state = "resolved"
        /\ corr[i].result = Resend(sends[i].seq)
        /\ Len(subs[i].got) = 4
        /\ Classify(subs[i].got[1]) = PlainOk
        /\ Classify(subs[i].got[3]) = SequencedOk(7)
        /\ Len(published) = 5
        /\ published[5] = OkLine(sends[i].seq)

\* C5 as stated: a correlator that has resolved was delivered a line about its
\* own number, or saw the response stream closed.
C5_ResolvedByAckOrClosure ==
    \A i \in SendIds :
        corr[i].state = "resolved" =>
            \/ FirstAck(sends[i].seq, subs[i].got) # 0
            \/ TxClosed

\* C6 (checked under SpecLive): after disconnect every correlator that waits
\* resolves, and one resolved without a line about its number yields PlainOk.
C6_DisconnectResolves ==
    /\ \A i \in SendIds :
          (printer = "Disconnected" /\ corr[i].state = "waiting")
              ~> (corr[i].state = "resolved")
    /\ [](\A i \in SendIds :
            (corr[i].state = "resolved" /\ FirstAck(sends[i].seq, subs[i].got) = 0) =>
                corr[i].result = PlainOk)

\* a correlator that was waiting at the disconnect saw the closure and yielded PlainOk
C6_Witness ==
    \E i \in SendIds :
        /\ printer = "Disconnected"
        /\ corr[i].state = "resolved"
        /\ corr[i].why = "closed"
        /\ corr[i].result = PlainOk
        /\ subs[i].cursor = Len(published)

(***************************************************************************)
(* Claims about the inbound path, checked under SpecIn.                    *)
(***************************************************************************)
\* the positions of the newlines among the bytes read from the transport
NewlinesRead == { n \in 1..Len(inRead) : inRead[n] = NL }

\* the position of the newline that ends the k-th complete line read; 0 for k = 0
LineEnd(k) ==
    IF k = 0 THEN 0
    ELSE CHOOSE n \in NewlinesRead : Cardinality({ m \in NewlinesRead : m <= n }) = k

\* the k-th complete line read from the transport, its newline included
WireLine(k) == SubSeq(inRead, LineEnd(k - 1) + 1, LineEnd(k))

\* C7: what has been published is, line for line and in order, the complete lines
\* read from the transport; nothing read is left unpublished once the task is back
\* at its select, as long as a subscription exists; and a subscription that has not
\* lagged was handed the lines published since it was made, each once, in that order.
C7_PublishedOnceInOrder ==
    /\ Len(published) <= Cardinality(NewlinesRead)
    /\ \A k \in 1..Len(published) : published[k] = WireLine(k)
    /\ (taskPc # "split" /\ LiveReceivers # {}) => Len(published) = Cardinality(NewlinesRead)
    /\ \A x \in SubIds :
          (subs[x].state # "none" /\ ~subs[x].lagged) =>
              /\ subs[x].start <= subs[x].cursor
              /\ subs[x].cursor <= Len(published)
              /\ Len(subs[x].got) = subs[x].cursor - subs[x].start
              /\ \A k \in 1..Len(subs[x].got) : subs[x].got[k] = WireLine(subs[x].start + k)

\* "ok 1\n" arrived in two reads and was published whole; a clone of the socket
\* made after it received the two lines that followed, which came in one read
C7_Witness ==
    /\ Len(published) >= 3
    /\ published[1] = OkLine(1)
    /\ subs[CloneSub].start = 1
    /\ Len(subs[CloneSub].got) = 2
    /\ subs[CloneSub].got[2] = TempLine

RECURSIVE Concat(_)
\* the lines of a sequence of lines, one behind the other
Concat(lines) == IF lines = << >> THEN << >> ELSE Head(lines) \o Concat(Tail(lines))

\* b starts with a
IsPrefix(a, b) == Len(a) <= Len(b) /\ SubSeq(b, 1, Len(a)) = a

\* C29 (checked under SpecFrag): every published item is one whole line: it ends
\* with the newline and has no other.  While the task runs, the published lines
\* followed by the task's buffer are exactly the bytes read, so the bytes of a line
\* cut by a read wait in the buffer; when the task has looked at what it read, the
\* buffer holds no newline.  What is published is at all times a prefix of what
\* was read, and once the task has ended, with a fragment or not, nothing more is
\* published.
C29_OnlyWholeLinesPublished ==
    /\ [](\A k \in 1..Len(published) :
            /\ published[k] # << >>
            /\ published[k][Len(published[k])] = NL
            /\ \A n \in 1..(Len(published[k]) - 1) : published[k][n] # NL)
    /\ [](taskState = "running" => Concat(published) \o buf = inRead)
    /\ []((taskState = "running" /\ taskPc = "select") => NewlinePos(buf) = 0)
    /\ [](IsPrefix(Concat(published), inRead))
    /\ [][taskState = "ended" => published' = published]_vars

\* "ok", " 1\n" and "ok" were read and the stream ended: "ok 1\n" was published
\* as one line, the second "ok" waits in the buffer of the running task
C29_Witness ==
    /\ transport = "eof"
    /\ taskState = "running"
    /\ inRead = OkLine(1) \o OkWord
    /\ published = << OkLine(1) >>
    /\ buf = OkWord

(***************************************************************************)
(* Claims about the outbound queue, checked under SpecOut.                 *)
(***************************************************************************)
\* the positions of what was written that hold the line of a send
WrittenSends == { n \in 1..Len(written) : written[n].kind = "send" }

\* C8: the lines reach the transport in the order they were committed to the
\* queue, whichever producer committed them, each one as it was committed.
C8_WrittenInCommitOrder ==
    /\ \A p, q \in 1..Len(written) : p < q => written[p].k < written[q].k
    /\ \A p \in 1..Len(written) : written[p] = commitLog[written[p].k]

\* three lines written, from a send and from a try-send, where the send that
\* reserved its slot first was written last
C8_Witness ==
    /\ Len(written) >= 3
    /\ \E p, q \in 1..Len(written) :
          /\ p < q
          /\ written[p].kind # "send"
          /\ written[q].kind = "send"
          /\ written[q].id = 1

\* C9: two sequenced lines can reach the transport with the higher number first;
\* this happens when, and only when, the send with the higher number committed
\* its line first, having claimed its number second.
C9_InversionIsCommitOrder ==
    \A p, q \in WrittenSends :
        (p < q /\ sends[written[p].id].seq > sends[written[q].id].seq) =>
            /\ written[p].k < written[q].k
            /\ \E a, b \in 1..Len(claimLog) :
                  /\ a < b
                  /\ claimLog[a].seq = sends[written[q].id].seq
                  /\ claimLog[b].seq = sends[written[p].id].seq

\* line N2 was written before line N1
C9_Witness ==
    \E p, q \in WrittenSends :
        /\ p < q
        /\ LineSequence(written[p].bytes) = 2
        /\ LineSequence(written[q].bytes) = 1

\* the place of the line of send i in what was written, 0 when it was not written
WrittenAt(i) ==
    LET at == { n \in WrittenSends : written[n].id = i }
    IN  IF at = {} THEN 0 ELSE CHOOSE n \in at : TRUE

\* the place of the line of send i in the commit order, 0 before it is committed
CommittedAt(i) ==
    LET at == { n \in 1..Len(commitLog) : commitLog[n].kind = "send" /\ commitLog[n].id = i }
    IN  IF at = {} THEN 0 ELSE CHOOSE n \in at : TRUE

\* C28 as claimed.  The sends are numbered in the order reserve() grants them
\* their permits (send j passes reserve only after every send i < j has): of two
\* sends whose lines were written, the one granted its permit first was written
\* first.
C28_ReservedFirstWrittenFirst ==
    \A i, j \in SendIds :
        (i < j /\ WrittenAt(i) # 0 /\ WrittenAt(j) # 0) => WrittenAt(i) < WrittenAt(j)

\* C28 as the code has it: of two sends whose lines were written, the one that
\* committed its line into its reserved slot first (Permit::send) was written
\* first, whichever of the two was granted its permit first; a line is written
\* only after its send held a permit and gave it up at the commit.
C28_CommittedFirstWrittenFirst ==
    /\ \A i, j \in SendIds :
          (i # j /\ WrittenAt(i) # 0 /\ WrittenAt(j) # 0) =>
              (WrittenAt(i) < WrittenAt(j) <=> CommittedAt(i) < CommittedAt(j))
    /\ \A i \in SendIds :
          WrittenAt(i) # 0 => CommittedAt(i) # 0 /\ ~sends[i].permit

\* send 1 was granted its permit first, send 2 committed first: the line of send 2
\* was written before the line of send 1
C28_Witness ==
    /\ WrittenAt(2) # 0
    /\ WrittenAt(2) < WrittenAt(1)
    /\ CommittedAt(2) < CommittedAt(1)

\* the entries committed by send_unsequenced and send_raw
TrySent(kind) == { n \in 1..Len(commitLog) : commitLog[n].kind = kind }

\* C13 (checked under SpecOut): a call of send_unsequenced or send_raw, whether
\* it enqueues or fails, leaves the sequence counter and the record of claimed
\* numbers as they were, and the counter only ever moves by the sequenced sends;
\* what send_unsequenced enqueues is the command's body and a newline whatever the
\* counter is, and what send_raw enqueues is the caller's bytes.
C13_UnsequencedLeavesCounter ==
    /\ counter = FirstSequence + Len(claimLog)
    /\ Len(claimLog) = Cardinality({ i \in SendIds : sends[i].seq # 0 })
    /\ \A n \in TrySent("unsequenced") : commitLog[n].bytes = RenderBody(M1234) \o << NL >>
    /\ \A n \in TrySent("raw") : commitLog[n].bytes = RawBytes

\* send_unsequenced enqueued its line between the commits of the sends that had
\* claimed numbers 1 and 2; the counter is 3
C13_Witness ==
    /\ counter = 3
    /\ \E n \in TrySent("unsequenced") :
          /\ \E m \in 1..(n - 1) : commitLog[m].kind = "send"
          /\ \E m \in (n + 1)..Len(commitLog) : commitLog[m].kind = "send"

\* the Printer handle: connect, disconnect and the methods of the trait called on
\* a printer in either state, while the tasks run or are being aborted
HandleNext ==
    \/ Len(prior) < MaxConnects /\ Connect
    \/ Disconnect
    \/ DisconnectIdle
    \/ PrinterSocket
    \/ PrinterSubscribeLines
    \/ \E i \in 1..FewSends, cmd \in CoreCommands : PrinterSend(i, cmd)
    \/ \E i \in SendIds : SendSerialize(i)
    \/ \E i \in SendIds : SendSubscribe(i)
    \/ \E i \in SendIds : SendCommit(i)
    \/ \E i \in SendIds : SendSpawn(i)
    \/ nTry < MaxTrySends /\ PrinterSendUnsequenced(M1234)
    \/ nTry < MaxTrySends /\ PrinterSendRaw(RawBytes)
    \/ PrinterReadNextLine
    \/ TaskDequeue
    \/ TaskFlush
    \/ TaskAborted
    \/ \E g \in 1..MaxConnects : PriorAborted(g)

SpecHandle == Init /\ [][HandleNext]_vars

\* a task that dies: of a transport that breaks under a connected printer, or of
\* an abort; calls on the printer and on a clone of its socket before and after
DeadNext ==
    \/ \E i \in 1..FewSends, cmd \in CoreCommands : PrinterSend(i, cmd)
    \/ \E i \in SendIds : SendSerialize(i)
    \/ \E i \in SendIds : SendSubscribe(i)
    \/ \E i \in SendIds : SendCommit(i)
    \/ \E i \in SendIds : SendSpawn(i)
    \/ nTry < MaxTrySends /\ PrinterSendRaw(RawBytes)
    \/ PrinterReadNextLine
    \/ CloneSocket
    \/ nTry < MaxTrySends /\ SocketOn("clone") /\ TrySendVia("clone", "raw", RawBytes)
    \/ \E i \in 1..FewSends, cmd \in CoreCommands :
          SocketOn("clone") /\ SendReserveFailVia("clone", i, cmd)
    \/ ReadNextLine
    \/ ReadNextLineClosed
    \/ TaskDequeue
    \/ TaskFlush
    \/ SendsReturned /\ nReads < DeadReads /\ TaskRead(OkLine(1))
    \/ TaskPublish
    \/ TaskAborted
    \/ Disconnect
    \/ TransportBreak

SpecDead == Init /\ [][DeadNext]_vars

\* disconnect at any moment of a printer that writes and reads, a clone of its
\* socket that keeps the broadcast subscribed
DropNext ==
    \/ CloneSocket
    \/ nTry < MaxTrySends /\ PrinterSendRaw(RawBytes)
    \/ TaskDequeue
    \/ TaskFlush
    \/ nReads < DropReads /\ TaskRead(OkLine(1) \o TempLine)
    \/ TaskPublish
    \/ TaskAborted
    \/ Disconnect
    \/ DisconnectIdle

\* the runtime cancels an aborted task at its next await, and the loop that
\* publishes the lines of one read has no await
SpecDrop ==
    /\ Init
    /\ [][DropNext]_vars
    /\ WF_vars(TaskAborted)
    /\ WF_vars(TaskPublish)

\* a producer that calls send_raw faster than the task writes, send_unsequenced
\* at a queue with one slot or none left, and a send that reserves the last slot
FullNext ==
    \/ \E cmd \in CoreCommands : Len(outq) >= QueueCapacity - 1 /\ PrinterSend(1, cmd)
    \/ \E i \in SendIds : SendSerialize(i)
    \/ \E i \in SendIds : SendSubscribe(i)
    \/ \E i \in SendIds : SendCommit(i)
    \/ \E i \in SendIds : SendSpawn(i)
    \/ nTry < FullTries /\ PrinterSendRaw(RawBytes)
    \/ nTry < FullTries /\ SlotsUsed >= QueueCapacity - 1 /\ PrinterSendUnsequenced(M1234)
    \/ TaskDequeue
    \/ TaskFlush

SpecFull == Init /\ [][FullNext]_vars

\* a clone of the socket that reads rarely or not at all while the firmware
\* reports line after line
StallNext ==
    \/ CloneSocket
    \/ ReadNextLine
    \/ nReads < LagReads /\ TaskRead(TempLine)
    \/ TaskPublish

SpecStall == Init /\ [][StallNext]_vars

\* a clone made at any moment, calls of read_next_line on it that begin before or
\* after the lines they return arrive
ReadNext ==
    \/ CloneSocket
    \/ ReadBegin
    \/ ReadReturn
    \/ \E chunk \in ByteChunks : nReads < InReads /\ TaskRead(chunk)
    \/ TaskPublish

SpecRead == Init /\ [][ReadNext]_vars

\* the printer's socket and a clone of it used side by side: sends through the
\* printer and sends through the clone, both reading, the correlators reading
ShareNext ==
    \/ CloneSocket
    \/ PrinterSend(1, M1234)
    \/ SocketOn("clone") /\ SendReserve(2, M1234)
    \/ \E i \in SendIds : SendSerialize(i)
    \/ \E i \in SendIds : SendSubscribe(i)
    \/ \E i \in SendIds : SendCommit(i)
    \/ \E i \in SendIds : SendSpawn(i)
    \/ \E i \in SendIds : CorrRecv(i)
    \/ ReadNextLine
    \/ PrinterReadNextLine
    \/ nReads < ShareReads /\ TaskRead(OkLine(1))
    \/ TaskPublish

SpecShare == Init /\ [][ShareNext]_vars

\* two sends on a printer whose task may end between them or in the middle of one:
\* the transport breaks under a write, or the printer is disconnected while a
\* clone goes on sending
RefuseNext ==
    \/ \E i \in 1..2, cmd \in CoreCommands : PrinterSend(i, cmd)
    \/ \E i \in 1..2, cmd \in CoreCommands : SocketOn("clone") /\ SendReserve(i, cmd)
    \/ \E i \in 1..2, cmd \in CoreCommands :
          SocketOn("clone") /\ SendReserveFailVia("clone", i, cmd)
    \/ \E i \in SendIds : SendSerialize(i)
    \/ \E i \in SendIds : SendSubscribe(i)
    \/ \E i \in SendIds : SendCommit(i)
    \/ \E i \in SendIds : SendSpawn(i)
    \/ CloneSocket
    \/ TaskDequeue
    \/ TaskFlush
    \/ TransportBreak
    \/ Disconnect
    \/ TaskAborted

SpecRefuse == Init /\ [][RefuseNext]_vars

ResendReads == 2

\* what the firmware answers with when it asks for lines again
ResendChunks == { ResendLine(1), ResendLine(2), OkLine(1) }

\* two sends written by the task, a firmware that, once both have returned, asks
\* for a resend of either line or acknowledges, a transport that may break,
\* disconnect
ResendNext ==
    \/ \E i \in 1..2 : SendReserve(i, G1234)
    \/ \E i \in SendIds : SendSerialize(i)
    \/ \E i \in SendIds : SendSubscribe(i)
    \/ \E i \in SendIds : SendCommit(i)
    \/ \E i \in SendIds : SendSpawn(i)
    \/ \E i \in SendIds : CorrRecv(i)
    \/ TaskDequeue
    \/ TaskFlush
    \/ \E chunk \in ResendChunks :
          /\ sends[1].pc = "done" /\ sends[2].pc = "done"
          /\ nReads < ResendReads
          /\ TaskRead(chunk)
    \/ TaskPublish
    \/ TransportBreak
    \/ Disconnect
    \/ TaskAborted

SpecResend == Init /\ [][ResendNext]_vars

\* a connection that sends, writes and reads, a clone of its socket, then one
\* connect on the same handle; the new connection sends, writes and reads again while the
\* clone of the old socket is used to send and to read and the old task runs
\* until its abort takes effect
ReconnectNext ==
    \/ CloneSocket
    \/ PrinterSend(1, G1234)
    \/ \E i \in SendIds : SendSerialize(i)
    \/ \E i \in SendIds : SendSubscribe(i)
    \/ \E i \in SendIds : SendCommit(i)
    \/ \E i \in SendIds : SendSpawn(i)
    \/ TaskDequeue
    \/ TaskFlush
    \/ nReads = 0 /\ sends[1].pc = "done" /\ TaskRead(OkLine(1))
    \/ TaskPublish
    \/ prior = << >> /\ ~InFlight /\ Connect
    \/ \E g \in 1..MaxConnects : PriorAborted(g)
    \/ OldTaskWrite
    \/ OldTaskPublish(TempLine)
    \/ OldCloneTrySend(RawBytes)
    \/ OldCloneSend(M1234)
    \/ OldCloneRead

SpecReconnect == Init /\ [][ReconnectNext]_vars

PairReads == 2

\* what the firmware answers two sends with
PairChunks == { OkLine(1), OkLine(2), ResendLine(2) }

\* two sends whose correlators wait side by side, a firmware that acknowledges
\* either line at any moment, also before the line was sent; set_sequence may be
\* called once on the socket's serializer after line 1 took its number
PairNext ==
    \/ \E i \in 1..2 : SendReserve(i, G1234)
    \/ \E i \in SendIds : SendSerialize(i)
    \/ \E i \in SendIds : SendSubscribe(i)
    \/ \E i \in SendIds : SendCommit(i)
    \/ \E i \in SendIds : SendSpawn(i)
    \/ \E i \in SendIds : CorrRecv(i)
    \/ \E chunk \in PairChunks : nReads < PairReads /\ TaskRead(chunk)
    \/ TaskPublish
    \/ nSetSeq = 0 /\ sends[1].seq # 0 /\ SetSequence(FirstSequence)
          /\ UNCHANGED << coreVars, handleVars >>

SpecPair == Init /\ [][PairNext]_vars

BothReads == 2

\* both directions at once: a send and a send_raw to write while the transport holds
\* BothReads lines for the task to read; the transport may break and the printer
\* may be disconnected
BothNext ==
    \/ SendReserve(1, G1234)
    \/ nTry < MaxTrySends /\ PrinterSendRaw(RawBytes)
    \/ \E i \in SendIds : SendSerialize(i)
    \/ \E i \in SendIds : SendSubscribe(i)
    \/ \E i \in SendIds : SendCommit(i)
    \/ \E i \in SendIds : SendSpawn(i)
    \/ TaskDequeue
    \/ TaskFlush
    \/ nReads < BothReads /\ TaskRead(TempLine)
    \/ TaskPublish
    \/ TransportBreak
    \/ Disconnect
    \/ TaskAborted

\* tokio::select! without `biased;` polls its branches starting from one chosen at
\* random each turn of the loop: a branch that is ready every time the task is at
\* the select is taken sooner or later, however often the other one is ready too
\* (strong fairness of the dequeue and of the read); inside an arm the task runs
\* on, the transport completing the flush (weak fairness of the flush and of the
\* publications)
SpecBoth ==
    /\ Init
    /\ [][BothNext]_vars
    /\ SF_vars(TaskDequeue)
    /\ WF_vars(TaskFlush)
    /\ SF_vars(nReads < BothReads /\ TaskRead(TempLine))
    /\ WF_vars(TaskPublish)

\* the words given to the macro table: "a", "A", "B", "b", "g28"
WordA == << 97 >>
WordUpperA == << 65 >>
WordUpperB == << 66 >>
WordB == << 98 >>
WordG28 == << 103, 50, 56 >>
\* the names macros are added, looked up and removed under
MacroNames == { WordA, WordUpperA, WordUpperB }
\* the steps of a macro, and the codes given to expand_all
StepLists == { << WordG28 >>, << WordA >>, << WordB, WordG28 >> }

\* a console that defines, deletes and expands macros
MacroNext ==
    \/ \E name \in MacroNames, steps \in StepLists : MacrosAdd(name, steps)
    \/ \E name \in MacroNames : MacrosRemove(name)
    \/ \E codes \in StepLists : ExpandAllBegin(codes)
    \/ ExpandStep
    \/ ExpandAllReturn

SpecMacro == Init /\ [][MacroNext]_vars

\* a print job of two lines; the firmware acknowledges the first line at once or
\* only reports, and is silent once the second line is sent; the correlators may
\* be slow, the transport may break
JobNext ==
    \/ CloneSocket
    \/ \E i \in SendIds : JobSend(i)
    \/ \E i \in SendIds : JobSendFail(i)
    \/ \E i \in SendIds : SendSerialize(i)
    \/ \E i \in SendIds : SendSubscribe(i)
    \/ \E i \in SendIds : SendCommit(i)
    \/ \E i \in SendIds : SendSpawn(i)
    \/ \E i \in SendIds : CorrRecv(i)
    \/ TaskDequeue
    \/ TaskFlush
    \/ nReads = 0 /\ sends[1].pc = "done" /\ TaskRead(OkLine(1))
    \/ nReads < LagReads /\ sends[1].pc = "done" /\ sends[2].pc = "idle" /\ TaskRead(TempLine)
    \/ TaskPublish
    \/ nReads = 0 /\ TransportBreak

SpecJob == Init /\ [][JobNext]_vars

\* sockets that come and go while the firmware reports: the printer disconnects,
\* a clone is made, reads, sends and is dropped
OrphanNext ==
    \/ CloneSocket
    \/ DropClone
    \/ ReadNextLine
    \/ nTry < MaxTrySends /\ SocketOn("clone") /\ TrySendVia("clone", "raw", RawBytes)
    \/ Disconnect
    \/ TaskDequeue
    \/ TaskFlush
    \/ \E chunk \in LineChunks : nReads < OrphanReads /\ TaskRead(chunk)
    \/ TaskPublish
    \/ TaskAborted

SpecOrphan == Init /\ [][OrphanNext]_vars

\* a transport whose read side ends or fails while the printer's socket and a
\* clone of it can still send
EndNext ==
    \/ CloneSocket
    \/ nTry < MaxTrySends /\ PrinterSendRaw(RawBytes)
    \/ TaskDequeue
    \/ TaskFlush
    \/ nReads < EndReads /\ TaskRead(TempLine)
    \/ TaskPublish
    \/ TransportEof
    \/ TransportBreak
    \/ Disconnect
    \/ TaskExit
    \/ TaskAborted

\* the runtime polls the task when one of its branches is ready, and cancels an
\* aborted task at its next await
SpecEnd ==
    /\ Init
    /\ [][EndNext]_vars
    /\ WF_vars(TaskDequeue)
    /\ WF_vars(TaskFlush)
    /\ WF_vars(TaskPublish)
    /\ WF_vars(TaskExit)
    /\ WF_vars(TaskAborted)

\* a transport that breaks while lines are sent and read; nobody disconnects, so
\* the task ends only when a write or a flush fails
FailNext ==
    \/ \E cmd \in CoreCommands : PrinterSend(1, cmd)
    \/ \E i \in SendIds : SendSerialize(i)
    \/ \E i \in SendIds : SendSubscribe(i)
    \/ \E i \in SendIds : SendCommit(i)
    \/ \E i \in SendIds : SendSpawn(i)
    \/ \E i \in SendIds : CorrRecv(i)
    \/ nTry < MaxTrySends /\ sends[1].pc = "idle" /\ PrinterSendRaw(RawBytes)
    \/ CloneSocket
    \/ ReadNextLine
    \/ ReadNextLineClosed
    \/ TaskDequeue
    \/ TaskFlush
    \/ nReads < FailReads /\ sends[1].pc = "done" /\ TaskRead(TempLine)
    \/ TaskPublish
    \/ TransportBreak

SpecFail == Init /\ [][FailNext]_vars

\* a stream that arrives cut anywhere and ends, perhaps in the middle of a line,
\* while the printer's socket reads or is dropped
FragNext ==
    \/ \E chunk \in ByteChunks : nReads < FragReads /\ TaskRead(chunk)
    \/ TaskPublish
    \/ PrinterReadNextLine
    \/ TransportEof
    \/ Disconnect
    \/ TaskExit
    \/ TaskAborted

SpecFrag == Init /\ [][FragNext]_vars

\* two sends whose callers may drop the handle they were returned, while the
\* firmware reports and acknowledges
DetachNext ==
    \/ \E i \in 1..2 : SendReserve(i, G1234)
    \/ \E i \in SendIds : SendSerialize(i)
    \/ \E i \in SendIds : SendSubscribe(i)
    \/ \E i \in SendIds : SendCommit(i)
    \/ \E i \in SendIds : SendSpawn(i)
    \/ \E i \in SendIds : CorrRecv(i)
    \/ \E i \in SendIds : DropHandle(i)
    \/ \E chunk \in LineChunks :
          (\A i \in 1..2 : sends[i].pc \in { "spawn", "done" }) /\ nReads < DetachReads /\ TaskRead(chunk)
    \/ TaskPublish

SpecDetach == Init /\ [][DetachNext]_vars

\* send_raw until the queue is full before the first send gets its slot, sends
\* that find the queue full, a task that writes to a transport that accepts
\* every write
FlowNext ==
    \/ \E i \in 1..FewSends, cmd \in CoreCommands : PrinterSend(i, cmd)
    \/ \E i \in SendIds : SendSerialize(i)
    \/ \E i \in SendIds : SendSubscribe(i)
    \/ \E i \in SendIds : SendCommit(i)
    \/ \E i \in SendIds : SendSpawn(i)
    \/ nTry < QueueCapacity /\ (\A i \in SendIds : sends[i].pc = "idle")
          /\ PrinterSendRaw(RawBytes)
    \/ TaskDequeue
    \/ TaskFlush

\* a send future does nothing before reserve() grants it a permit, so a send not
\* yet past reserve is one that waits there; the runtime polls it when a permit is
\* released, polls the task when the queue has a line, and the transport
\* completes the writes and flushes
SpecFlow ==
    /\ Init
    /\ [][FlowNext]_vars
    /\ WF_vars(TaskDequeue)
    /\ WF_vars(TaskFlush)
    /\ \A i \in 1..FewSends :
          /\ WF_vars(\E cmd \in CoreCommands : PrinterSend(i, cmd))
          /\ WF_vars(SendSerialize(i))
          /\ WF_vars(SendSubscribe(i))
          /\ WF_vars(SendCommit(i))
          /\ WF_vars(SendSpawn(i))

(***************************************************************************)
(* Claims about the bytes of a line, checked under SpecFmt.                *)
(***************************************************************************)
\* the lines returned by sequenced and by unsequenced serializations
SequencedReturned == { r \in returned : r.idx # 0 }
UnsequencedReturned == { r \in returned : r.idx = 0 }

\* 1 when the bit of place value p is set in byte b
BitOf(b, p) == (b \div p) % 2

\* the bit of place value p of the XOR of all bytes: set when an odd number of them has it
ParityBit(bytes, p) == p * (Cardinality({ i \in 1..Len(bytes) : BitOf(bytes[i], p) = 1 }) % 2)

\* the XOR of all bytes, starting from 0
XorOfAll(bytes) ==
    ParityBit(bytes, 1) + ParityBit(bytes, 2) + ParityBit(bytes, 4) + ParityBit(bytes, 8)
    + ParityBit(bytes, 16) + ParityBit(bytes, 32) + ParityBit(bytes, 64) + ParityBit(bytes, 128)

\* C14: the number after '*' of a sequenced line is the XOR, from 0, of the bytes
\* N<seq><body> before the '*' and of nothing else, whatever was serialized before;
\* it is printed in decimal, and '*', its digits and the newline end the line.
C14_ChecksumIsXorBeforeStar ==
    \A r \in SequencedReturned :
        LET checked == << UpperN >> \o Itoa(r.seq) \o RenderBody(r.cmd)
        IN  /\ IsSequencedLine(r.bytes)
            /\ LineChecked(r.bytes) = checked
            /\ LineChecksum(r.bytes) = XorOfAll(checked)
            /\ r.bytes = checked \o << Star >> \o DigitsNat(XorOfAll(checked)) \o << NL >>

\* the second line of a serializer, numbered i32::MIN after a set_sequence, for a
\* command with two fields, and the line N1G1234X-1Y2.3*14 of the crate's test
C14_Witness ==
    /\ \E r \in SequencedReturned : r.idx = 2 /\ r.seq = I32Min /\ r.cmd = G1
    /\ \E r \in SequencedReturned :
          /\ r.seq = 1 /\ r.cmd = G1234
          /\ LineChecksum(r.bytes) = 14

\* the line without its first n bytes and without '*' and what follows it, the newline kept
Unframed(bytes, n) == SubSeq(bytes, n + 1, StarIndex(bytes) - 1) \o << NL >>

\* C15: an unsequenced line is the body and a newline; a sequenced line is 'N', the
\* number in decimal, the same body, '*', a decimal checksum and a newline; without
\* N<k> and *<sum> it is the unsequenced line of the same command.
C15_SequencedFramesUnsequenced ==
    /\ \A u \in UnsequencedReturned :
          /\ u.bytes = RenderBody(u.cmd) \o << NL >>
          /\ u.seq = 0
    /\ \A r \in SequencedReturned :
          LET prefix == << UpperN >> \o Itoa(r.seq)
          IN  /\ StartsWith(r.bytes, prefix \o RenderBody(r.cmd) \o << Star >>)
              /\ StarIndex(r.bytes) = Len(prefix) + Len(RenderBody(r.cmd)) + 1
              /\ r.bytes[Len(r.bytes)] = NL
              /\ AllDigits(SubSeq(r.bytes, StarIndex(r.bytes) + 1, Len(r.bytes) - 1))
              /\ Unframed(r.bytes, Len(prefix)) = RenderBody(r.cmd) \o << NL >>
              /\ \A u \in UnsequencedReturned :
                    u.cmd = r.cmd => Unframed(r.bytes, Len(prefix)) = u.bytes

\* the same command serialized both ways, the sequenced line numbered -7
C15_Witness ==
    \E r \in SequencedReturned, u \in UnsequencedReturned :
        /\ r.cmd = G1 /\ u.cmd = G1
        /\ r.seq = -7
        /\ u.bytes = << 71, 49, 88, 49, 48, 70, 49, NL >>

(***************************************************************************)
(* Claims about the Printer handle, checked under SpecHandle, SpecDrop and *)
(* SpecDead.                                                               *)
(***************************************************************************)
\* Printer::is_connected
IsConnected == printer = "Connected"

\* the background tasks on which abort() was not called: this connection's and
\* those of the connections before
TasksNotAborted ==
    (IF abortReq THEN 0 ELSE 1) + Cardinality({ g \in 1..Len(prior) : ~prior[g].abort })

\* a step of connect: one more connection lies behind the handle
ConnectStep == Len(prior') = Len(prior) + 1

\* C16: connect leaves the printer Connected with a task just spawned, on which
\* abort() was not called, and a new queue, broadcast and serializer, whatever the
\* state before; abort() was called on the task of the connection it replaces.  At
\* every moment at most one task of the handle is not aborted, it is the task of the
\* connection the handle holds, and there is none while the handle is Disconnected.
C16_ConnectReplacesTask ==
    /\ [](/\ TasksNotAborted <= 1
          /\ IsConnected => ~abortReq
          /\ ~IsConnected => TasksNotAborted = 0)
    /\ [][ConnectStep =>
             /\ IsConnected'
             /\ taskState' = "running" /\ taskPc' = "select" /\ ~abortReq'
             /\ prior'[Len(prior')].abort
             /\ prior'[Len(prior')].state = taskState
             /\ outq' = << >> /\ published' = << >> /\ counter' = FirstSequence
             /\ TasksNotAborted' = 1]_vars

\* connect on a Connected printer that has sent line 1: the task it replaces is
\* aborted and still running, the new one runs, and the numbering restarts
C16_Witness ==
    /\ Len(prior) = 1 /\ prior[1].state = "running" /\ prior[1].abort
    /\ IsConnected /\ taskState = "running" /\ ~abortReq
    /\ counter = 2 /\ Len(written) = 1 /\ written[1].bytes = SequencedLine(1, G1234)

\* a step of disconnect
DisconnectStep == Disconnect \/ DisconnectIdle

\* C17: disconnect leaves the printer Disconnected from either state and changes
\* nothing else when it was Disconnected; on a Connected printer it calls abort()
\* on the task; an aborted task ends, and a task that has ended stays ended, writes
\* no line to the transport and publishes no line.
C17_DisconnectStopsTask ==
    /\ [][/\ DisconnectStep => ~IsConnected'
          /\ DisconnectIdle => UNCHANGED << coreVars, serVars, prior, readCall, dropped, macVars, old >>
          /\ Disconnect => abortReq'
          /\ taskState = "ended" =>
                taskState' = "ended" /\ written' = written /\ published' = published]_vars
    /\ abortReq ~> (taskState = "ended")
    /\ [](~IsConnected => abortReq)

\* disconnected twice; the task was stopped with a line of the queue unwritten and
\* a line of the transport published to the clone
C17_Witness ==
    /\ ~IsConnected /\ taskState = "ended"
    /\ lastCall.op = "disconnect"
    /\ Len(commitLog) = 1 /\ written = << >>
    /\ Len(published) >= 1 /\ Len(inRead) > Len(published[1])

\* a step of one of the six methods called on the Printer
PrinterCall ==
    \/ PrinterSocket
    \/ PrinterSubscribeLines
    \/ \E i \in SendIds, cmd \in CoreCommands : PrinterSend(i, cmd)
    \/ PrinterSendUnsequenced(M1234)
    \/ PrinterSendRaw(RawBytes)
    \/ PrinterReadNextLine

\* C18: on a Disconnected printer each of socket, send, send_unsequenced, send_raw,
\* read_next_line and subscribe_lines returns the Disconnected error and changes
\* nothing: not the printer, the queue, the counter, the sends or the correlators.
C18_DisconnectedRefuses ==
    [][(~IsConnected /\ PrinterCall) =>
          /\ lastCall'.err = "Disconnected" /\ lastCall'.on = "printer"
          /\ UNCHANGED << coreVars, serVars, prior, readCall, dropped, macVars, old >>]_vars

\* send_raw refused on a printer disconnected after line 1 was sent, while the
\* aborted task still runs: the counter stays at 2 and only line 1 was committed
C18_Witness ==
    /\ ~IsConnected /\ taskState = "running"
    /\ lastCall = Returned("raw", "printer", "Disconnected")
    /\ counter = 2 /\ Len(commitLog) = 1 /\ nTry = 0
    /\ corr[1].state = "waiting"

\* C19: when the task of a Connected printer has ended, a send, send_unsequenced,
\* send_raw or read_next_line on the Printer that returns an error leaves the
\* handle Disconnected.
C19_ClosureDisconnects ==
    [][(IsConnected /\ taskState = "ended" /\ PrinterCall /\ lastCall'.err # "none") =>
          ~IsConnected']_vars

\* a step of a method called on the clone of the socket that finds the queue or
\* the broadcast closed
CloneCallOnClosed ==
    /\ SocketOn("clone")
    /\ \/ TrySendVia("clone", "raw", RawBytes)
       \/ \E i \in SendIds, cmd \in CoreCommands : SendReserveFailVia("clone", i, cmd)
       \/ ReadNextLineClosed

\* C20: once the task has ended, a send, send_raw or read_next_line (no line left
\* to read) on a clone of the socket returns the Disconnected error and enqueues
\* nothing.
C20_SameDisconnectedError ==
    [][(taskState = "ended" /\ CloneCallOnClosed) =>
          /\ lastCall'.err = "Disconnected"
          /\ outq' = outq /\ commitLog' = commitLog]_vars

(***************************************************************************)
(* Claims about the bounded queue, checked under SpecFull and SpecFlow.    *)
(***************************************************************************)
\* the slots of the queue that are taken: lines committed and not yet received by
\* the task, and reservations of sends that have not committed yet
SlotsTaken ==
    Len(outq) + Cardinality({ i \in SendIds : sends[i].pc \in { "serialize", "subscribe", "commit" } })

\* a step of send_unsequenced or send_raw on the printer
TryStep == PrinterSendUnsequenced(M1234) \/ PrinterSendRaw(RawBytes)

\* what the call of the step put behind the queue
TriedBytes == IF lastCall'.op = "raw" THEN RawBytes ELSE RenderBody(M1234) \o << NL >>

\* C21: send_unsequenced and send_raw can always be taken as one step (they never
\* wait).  At a queue with 8 slots taken the call returns the queue-full error and
\* the queue is as before; with a slot free the call returns Ok and the queue is
\* the queue before with the call's one line behind it.
C21_TrySendNeverWaits ==
    /\ [](IsConnected /\ nTry < FullTries => ENABLED PrinterSendRaw(RawBytes))
    /\ [][(IsConnected /\ TryStep) =>
             IF SlotsTaken >= 8
             THEN /\ lastCall'.err = "Sender(Full)"
                  /\ outq' = outq /\ commitLog' = commitLog /\ sends' = sends
             ELSE /\ lastCall'.err = "none"
                  /\ Len(outq') = Len(outq) + 1
                  /\ SubSeq(outq', 1, Len(outq)) = outq
                  /\ outq'[Len(outq')].bytes = TriedBytes
                  /\ Len(commitLog') = Len(commitLog) + 1]_vars

\* a call refused at 7 lines and one reservation, then a line dequeued, then the
\* ninth call accepted
C21_Witness ==
    /\ nTry = 9 /\ Cardinality(TrySent("raw")) + Cardinality(TrySent("unsequenced")) = 8
    /\ lastCall.err = "none" /\ lastCall.op = "unsequenced"
    /\ commitLog[Len(commitLog)].id = 9
    /\ Len(written) = 1
    /\ SlotsTaken = 8 /\ Len(outq) = 7

\* C22: the queue never holds more than 8 lines and reservations together; a send
\* takes its reservation only when fewer than 8 slots are taken, and at a full
\* queue it stays before the reservation; while the task runs and the transport
\* accepts the writes, a send that waits at a full queue gets its slot, commits
\* its line and returns.
C22_QueueBoundedSendsProceed ==
    /\ [](SlotsTaken <= 8)
    /\ [][\A i \in SendIds :
             (sends[i].pc = "idle" /\ sends'[i].pc # "idle") =>
                 SlotsTaken < 8 /\ SlotsTaken' = SlotsTaken + 1]_vars
    /\ \A i \in 1..FewSends :
          (sends[i].pc = "idle" /\ SlotsTaken = 8) ~> (sends[i].pc = "done" /\ Committed(i))

\* a send that returned after eight accepted calls of send_raw: its line is the
\* ninth committed, behind lines of which the task had written one or more
C22_Witness ==
    /\ sends[1].pc = "done"
    /\ nTry = 8 /\ Cardinality(TrySent("raw")) = 8
    /\ commitLog[9].kind = "send"
    /\ written # << >>

(***************************************************************************)
(* Claims about readers of the broadcast, checked under SpecStall,         *)
(* SpecRead and SpecShare.                                                 *)
(***************************************************************************)
\* the oldest line the broadcast still keeps
OldestKept == published[Len(published) - BroadcastCapacity + 1]

\* C23 as stated: read_next_line on a clone that is more than 64 lines behind
\* returns the oldest line the broadcast still keeps, and the clone lives on to
\* read the lines after it.
C23_LaggedReadYieldsOldest ==
    [][(RecvOutcome(subs[CloneSub]) = "lagged" /\ ReadNextLine) =>
          /\ clone' = "alive"
          /\ subs'[CloneSub].state = "open"
          /\ subs'[CloneSub].got = Append(subs[CloneSub].got, OldestKept)]_vars

\* a step in which a call of read_next_line on the clone returns a line
ReturnsLine == RecvOutcome(subs[CloneSub]) = "value" /\ ReadReturn

\* C24 as stated: the line a call of read_next_line returns was published after
\* the call began.
C24_ReturnsLineAfterCall ==
    [][ReturnsLine => readCall'.idx > readCall.began]_vars

\* C24 as amended: a call of read_next_line returns the next line of the socket's
\* own subscription, which starts when the socket is made and lasts over the
\* calls: the oldest line published since then that the socket has not returned,
\* whether it was published before or after the call began.
C24_ReturnsNextOfOwnSubscription ==
    [][ReturnsLine =>
          /\ readCall'.idx = subs[CloneSub].cursor + 1
          /\ readCall'.idx > subs[CloneSub].start
          /\ subs'[CloneSub].got = Append(subs[CloneSub].got, published[readCall'.idx])
          /\ subs'[CloneSub].got =
                SubSeq(published, subs[CloneSub].start + 1, readCall'.idx)]_vars

\* the second call began when two lines were unread, one of them returned by the
\* first call since, and returned the line published before it began; a line
\* published before the clone was made was never returned
C24_Witness ==
    /\ ~readCall.active /\ readCall.idx = 3 /\ readCall.began = 3
    /\ subs[CloneSub].start = 1
    /\ Len(subs[CloneSub].got) = 2

\* the subscriptions that are open: the printer's socket's, the clone's, those of
\* the correlators
OpenSubs == { x \in SubIds : subs[x].state = "open" }

\* a step in which the printer's socket or the clone reads a line
SocketReads(x) ==
    \/ x = CloneSub /\ ReadNextLine
    \/ x = SockSub /\ PrinterReadNextLine

\* C25: the sends through the printer's socket and through the clone draw their
\* numbers from one counter and commit to one queue.  Each socket and subscription
\* has a cursor of its own: a read on one socket moves that socket's cursor by one
\* line and leaves every other subscription as it was, and every open subscription
\* has been handed, or still has to come, every line published since it was made,
\* whatever the others have read.
C25_ClonesShareAllButCursor ==
    /\ [](\A i, j \in SendIds :
            (i # j /\ sends[i].seq # 0 /\ sends[j].seq # 0) => sends[i].seq # sends[j].seq)
    /\ [](\A i \in SendIds :
            sends[i].pc \in { "spawn", "done" } =>
                \E n \in 1..Len(commitLog) :
                    commitLog[n].id = i /\ commitLog[n].bytes = SequencedLine(sends[i].seq, sends[i].cmd))
    /\ [](\A x \in OpenSubs :
            /\ subs[x].got = SubSeq(published, subs[x].start + 1, subs[x].cursor)
            /\ subs[x].cursor <= Len(published))
    /\ [][\A x \in { SockSub, CloneSub } :
             SocketReads(x) =>
                 /\ \A y \in SubIds \ { x } : subs'[y] = subs[y]
                 /\ subs'[x].cursor = subs[x].cursor + 1
                 /\ published' = published]_vars

\* two lines published; the clone has read both, the printer's socket the first
\* only, and has the second still to come; a send through each socket, numbered 1
\* and 2, both lines in the one queue
C25_Witness ==
    /\ Len(published) = 2
    /\ subs[CloneSub].start = 0 /\ subs[CloneSub].cursor = 2
    /\ subs[SockSub].cursor = 1 /\ subs[SockSub].got = << published[1] >>
    /\ sends[1].seq = 1 /\ sends[2].seq = 2
    /\ Len(commitLog) = 2 /\ commitLog[1].id = 2 /\ commitLog[2].id = 1

\* the receiver as its next recv leaves it when that recv reports the lag: at the
\* oldest line the channel still keeps
AfterLag(sub) == IF RecvOutcome(sub) = "lagged" THEN RecvLagged(sub) ELSE sub

\* the lines published that the receiver can still be handed
UndeliveredCount(sub) == Len(published) - AfterLag(sub).cursor

\* the place in the published lines of the oldest of them
OldestUndelivered(sub) == AfterLag(sub).cursor + 1

\* the task publishes a line
Publishes == Len(published') = Len(published) + 1

\* C26: a subscription has at most 64 lines undelivered.  The task publishes
\* whenever it has a line split off, whatever the subscribers have read; the step
\* changes no subscription; a subscriber with 64 lines undelivered loses the oldest
\* of them and has the new line behind the other 63, a subscriber with fewer loses
\* none; a subscriber that never was 64 behind at a publication has been handed,
\* or still has to come, every line published since its subscription.
C26_OverflowDropsOldest ==
    /\ [](\A x \in OpenSubs : UndeliveredCount(subs[x]) <= 64)
    /\ []((taskState = "running" /\ taskPc = "split") => ENABLED TaskPublish)
    /\ [][Publishes =>
            /\ TaskPublish
            /\ subs' = subs
            /\ \A x \in OpenSubs :
                 IF UndeliveredCount(subs[x]) = 64
                 THEN /\ OldestUndelivered(subs[x])' = OldestUndelivered(subs[x]) + 1
                      /\ UndeliveredCount(subs[x])' = 64
                 ELSE /\ OldestUndelivered(subs[x])' = OldestUndelivered(subs[x])
                      /\ UndeliveredCount(subs[x])' = UndeliveredCount(subs[x]) + 1]_vars
    /\ [](\A x \in OpenSubs :
            Len(published) - subs[x].cursor <= 64 =>
                subs[x].got \o SubSeq(published, OldestUndelivered(subs[x]), Len(published))
                    = SubSeq(published, subs[x].start + 1, Len(published)))

\* 66 lines published: the printer's socket, which read none, has lost the first
\* two and has the last 64 to come; the clone, subscribed before the first line,
\* kept up and has been handed all 66
C26_Witness ==
    /\ Len(published) = 66
    /\ subs[SockSub].cursor = 0 /\ subs[SockSub].state = "open"
    /\ OldestUndelivered(subs[SockSub]) = 3
    /\ UndeliveredCount(subs[SockSub]) = 64
    /\ clone = "alive"
    /\ subs[CloneSub].start = 0
    /\ Len(subs[CloneSub].got) = 66

\* the handles dropped
Dropped27 == { i \in SendIds : dropped[i] # NotDropped }

\* C27 as claimed: dropping the handle cancels the correlator, which from then on
\* reads no line of its subscription and does not exist; the other correlators and
\* subscriptions go on unaffected.
C27_DropCancelsCorrelator ==
    [][\A i \in SendIds :
         dropped[i] # NotDropped =>
             /\ subs'[i].cursor = subs[i].cursor
             /\ corr[i].state # "waiting"]_vars

\* C27 as the code has it: dropping the handle detaches the correlator.  The step
\* changes no correlator, no subscription, nothing of the task or the queue; the
\* correlator whose handle was dropped while it waited keeps its subscription open
\* and goes on reading it, line by line, until the matching acknowledgement, a lag
\* or the closure resolves it, as it would have with the handle held.
C27_DropDetachesCorrelator ==
    /\ [][\A i \in SendIds : DropHandle(i) => UNCHANGED << coreVars, serVars >>]_vars
    /\ [](\A i \in SendIds :
            (dropped[i] # NotDropped /\ corr[i].state = "waiting") =>
                /\ subs[i].state = "open"
                /\ RecvOutcome(subs[i]) # "pending" => ENABLED CorrRecv(i))
    /\ [](\A i \in SendIds :
            dropped[i] # NotDropped =>
                /\ corr[i].state \in { "waiting", "resolved" }
                /\ subs[i].cursor >= dropped[i]
                /\ subs[i].got = SubSeq(published, subs[i].start + 1, subs[i].cursor)
                /\ (corr[i].state = "resolved" /\ corr[i].why = "match") =>
                       Matches(corr[i].sequence, Classify(published[subs[i].cursor])))

\* the handle of send 1 was dropped before any line was published; its correlator
\* then read "T:2\n" and "ok 1\n" and resolved on the second; the correlator of
\* send 2, handle held, read the same two lines and waits
C27_Witness ==
    /\ dropped[1] = 0 /\ dropped[2] = NotDropped
    /\ published = << TempLine, OkLine(1) >>
    /\ corr[1].state = "resolved" /\ corr[1].why = "match" /\ subs[1].cursor = 2
    /\ corr[2].state = "waiting" /\ subs[2].cursor = 2

\* the task writes or flushes on a transport that fails
WriteFails == (TaskDequeue \/ TaskFlush) /\ transport = "broken"

\* C30 (checked under SpecFail, where nothing else ends the task): a write or a
\* flush that fails ends the task, and the step writes and publishes nothing; the
\* task ends in no other way; once ended it stays ended, and nothing more is
\* written or published.  From then on no subscription waits: a receiver is
\* handed the lines it has not yet passed and after the last of them the closure,
\* on which the clone's read_next_line returns Disconnected and a waiting
\* correlator resolves.
C30_WriteFailureEndsTask ==
    /\ [][WriteFails =>
            /\ taskState' = "ended"
            /\ written' = written
            /\ published' = published]_vars
    /\ [][(taskState = "running" /\ taskState' = "ended") => WriteFails]_vars
    /\ [][taskState = "ended" =>
            /\ taskState' = "ended"
            /\ written' = written
            /\ published' = published]_vars
    /\ [](taskState = "ended" =>
            \A x \in OpenSubs :
                RecvOutcome(subs[x]) =
                    IF subs[x].cursor = Len(published) THEN "closed" ELSE "value")
    /\ [](taskState = "ended" =>
            /\ (clone = "alive" /\ subs[CloneSub].cursor = Len(published)) =>
                   ENABLED ReadNextLineClosed
            /\ \A i \in SendIds : corr[i].state = "waiting" => ENABLED CorrRecv(i))
    /\ [][\A i \in SendIds :
            (taskState = "ended" /\ CorrRecv(i) /\ subs[i].cursor = Len(published)) =>
                corr'[i].state = "resolved" /\ corr'[i].why = "closed"]_vars

\* one line was written, then the transport broke and the write of the next line
\* failed; the clone read the line published before that and was then told
\* Disconnected; the correlator of the send resolved on the closure
C30_Witness ==
    /\ taskState = "ended"
    /\ transport = "broken"
    /\ Len(written) = 1
    /\ Len(commitLog) = 2
    /\ Len(published) = 1
    /\ subs[CloneSub].got = << TempLine >>
    /\ lastCall = Returned("read_next_line", "clone", "Disconnected")
    /\ corr[1].state = "resolved" /\ corr[1].why = "closed"

\* C31 (under SpecEnd): once the read side of the transport has reached its end or
\* failed, the task terminates, whether or not a sender of the queue is alive and
\* whether or not a line is queued.
C31_ReadEndTerminates == (transport # "open") ~> (taskState = "ended")

\* the task publishes, or tries to, while no receiver of the broadcast is left
PublishToNobody == TaskPublish /\ LiveReceivers = {}

\* C32 as claimed: a publish that finds no receiver leaves the task running.
C32_PublishToNobodyNotFatal == [][PublishToNobody => taskState' = "running"]_vars

\* C32 as the code has it: a publish that finds no receiver ends the task; the
\* line is not published and the queue goes with the task.  It finds none only
\* when no Socket is left (the printer is not Connected and no clone is alive), so
\* nobody remains who could subscribe; a publish that finds a receiver, of a socket
\* or of a correlator, appends its line and leaves the task running.
C32_PublishToNobodyEndsTask ==
    /\ [][PublishToNobody =>
            /\ taskState' = "ended"
            /\ published' = published
            /\ outq' = << >>
            /\ written' = written
            /\ printer # "Connected"
            /\ clone # "alive"]_vars
    /\ [][(TaskPublish /\ LiveReceivers # {}) =>
            /\ taskState' = "running"
            /\ Len(published') = Len(published) + 1
            /\ UNCHANGED << outq, written >>]_vars
    /\ [](printer = "Connected" => subs[SockSub].state = "open")
    /\ [](clone = "alive" => subs[CloneSub].state = "open")
    /\ [][taskState = "ended" => published' = published /\ written' = written]_vars

\* the printer was disconnected and the clone dropped, the abort had not taken
\* effect when "T:2\n" was read: the publish found nobody and the task ended with
\* the line unpublished
C32_Witness ==
    /\ taskState = "ended"
    /\ printer = "Disconnected"
    /\ clone = "dropped"
    /\ inRead = TempLine
    /\ published = << >>

\* the lines of the job committed to the queue for which no "ok n" and no resend
\* request has been published
Unacknowledged ==
    { i \in 1..Len(JobFile) : Committed(i) /\ FirstAck(sends[i].seq, published) = 0 }

\* C33 (under SpecJob): the job commits the lines of the file in file order, each
\* as a sequenced line; it commits line i+1 only after the correlator of line i
\* has resolved, so at most one committed line of the job is unacknowledged; after
\* a send that failed it sends no further line.
C33_JobOneLineOutstanding ==
    /\ \A n \in 1..Len(commitLog) :
          /\ commitLog[n].id = n
          /\ commitLog[n].bytes = SequencedLine(sends[n].seq, JobFile[n])
    /\ \A i \in 2..Len(JobFile) :
          sends[i].pc # "idle" => corr[i - 1].state = "resolved"
    /\ Cardinality(Unacknowledged) <= 1
    /\ \A i \in 1..Len(JobFile) :
          sends[i].pc = "failed" =>
              /\ ~Committed(i)
              /\ \A j \in (i + 1)..Len(JobFile) : sends[j].pc = "idle"

\* the numbers claimed that equal n, and the lines committed by send i
ClaimsOf(n) == { k \in 1..Len(claimLog) : claimLog[k].seq = n }
CommitsOf(i) == { k \in 1..Len(commitLog) : commitLog[k].kind = "send" /\ commitLog[k].id = i }

\* send i returns the error of reserve
FailsAtReserve(i) == sends[i].pc = "idle" /\ sends'[i].pc = "failed"

\* C36 (under SpecRefuse): the step in which a send fails at reserve changes
\* neither the counter nor the subscriptions, the correlators, the queue or what
\* was committed, and the failed send has no number, subscription, correlator or
\* line; the counter has moved once per send that went past reserve; a send that
\* returned Ok claimed one number, committed one line, which carries that number,
\* and has one correlator, which waits for that number or resolved for it.
C36_FailedSendHasNoEffect ==
    /\ [][\A i \in SendIds :
            FailsAtReserve(i) =>
                /\ taskState = "ended"
                /\ UNCHANGED << counter, claimLog, subs, corr, outq, commitLog, written >>]_vars
    /\ [](\A i \in SendIds :
            sends[i].pc = "failed" =>
                /\ sends[i].seq = 0
                /\ subs[i].state = "none"
                /\ corr[i].state = "none"
                /\ CommitsOf(i) = {})
    /\ [](counter = FirstSequence
                      + Cardinality({ i \in SendIds : sends[i].pc \notin { "idle", "failed", "serialize" } }))
    /\ [](\A i \in SendIds :
            sends[i].pc = "done" =>
                /\ Cardinality(ClaimsOf(sends[i].seq)) = 1
                /\ Cardinality(CommitsOf(i)) = 1
                /\ \A k \in CommitsOf(i) : LineSequence(commitLog[k].bytes) = sends[i].seq
                /\ corr[i].state \in { "waiting", "resolved" }
                /\ corr[i].sequence = sends[i].seq
                /\ subs[i].state # "none")

\* send 1 returned Ok with number 1, its line was written; then the transport broke
\* and the task ended; send 2, on the clone, failed at reserve: the counter is
\* still 2 and only the line of send 1 was ever committed
C36_Witness ==
    /\ sends[1].pc = "done" /\ sends[1].seq = 1
    /\ Len(written) = 1
    /\ taskState = "ended"
    /\ sends[2].pc = "failed"
    /\ lastCall = Returned("send", "clone", "SendReserve")
    /\ counter = 2
    /\ Len(commitLog) = 1

\* correlator i takes a line that asks for a resend
TakesResend(i) ==
    /\ corr[i].state = "waiting"
    /\ subs'[i].cursor = subs[i].cursor + 1
    /\ subs[i].cursor < Len(published)
    /\ Classify(published[subs[i].cursor + 1]).tag = "Resend"

\* C37 (under SpecResend): no committed line is written twice and no written line
\* is in the queue again; what is written is the committed line, whole, in one
\* step of the task taken from the select, which leaves the task at the flush; the
\* task comes back from the flush to the select, where it can dequeue, only by a
\* flush that succeeded; a correlator that takes a Resend(n) resolves with
\* Resend(n) when n is its number and otherwise stays as it was, no other
\* correlator changes in that step, and neither that step nor the publication of
\* any line changes the queue, the committed lines or what was written.
C37_NeverRetransmits ==
    /\ [](\A p, q \in 1..Len(written) : p # q => written[p].k # written[q].k)
    /\ [](\A p \in 1..Len(written) : written[p] = commitLog[written[p].k])
    /\ [](\A p \in 1..Len(written), q \in 1..Len(outq) : written[p].k # outq[q].k)
    /\ [][written' # written =>
            /\ taskState = "running" /\ taskPc = "select" /\ taskPc' = "flush"
            /\ outq # << >>
            /\ written' = Append(written, Head(outq))
            /\ outq' = Tail(outq)]_vars
    /\ [][(taskPc = "flush" /\ taskPc' = "select" /\ taskState' = "running") =>
            /\ transport # "broken"
            /\ UNCHANGED << written, outq >>]_vars
    /\ [][\A i \in SendIds :
            TakesResend(i) =>
                /\ LET resp == Classify(published[subs[i].cursor + 1])
                   IN  IF resp.n = corr[i].sequence
                       THEN corr'[i].state = "resolved" /\ corr'[i].result = resp
                       ELSE corr'[i] = corr[i]
                /\ \A j \in SendIds : j # i => corr'[j] = corr[j]
                /\ UNCHANGED << outq, commitLog, written, counter >>]_vars
    /\ [][published' # published => UNCHANGED << outq, commitLog, written >>]_vars

\* both lines were written, once each; the firmware asked for line 1 again, the
\* correlator of send 1 resolved with Resend(1), the correlator of send 2 took the
\* same line and waits on; the queue is empty and nothing was written again
C37_Witness ==
    /\ Len(written) = 2
    /\ corr[1].state = "resolved" /\ corr[1].result.tag = "Resend"
    /\ corr[1].result.n = sends[1].seq
    /\ corr[2].state = "waiting" /\ subs[2].cursor = Len(published)
    /\ Len(published) = 1
    /\ outq = << >>
    /\ taskState = "running" /\ taskPc = "select"

\* the task was aborted, or the transport refuses writes
NotServing == abortReq \/ transport = "broken"

\* C38 (under SpecBoth): unless the task is aborted or the transport breaks, the
\* k-th committed line is eventually written, for every k, and the lines the
\* transport holds are eventually all read and published, whatever the other
\* direction has to do meanwhile; and while neither has happened the task runs.
C38_BothDirectionsProgress ==
    /\ \A k \in 1..(FewSends + MaxTrySends) :
          (Len(commitLog) >= k) ~> (Len(written) >= k \/ NotServing)
    /\ <>(Len(published) = BothReads \/ NotServing)
    /\ [](~NotServing => taskState = "running")

\* two lines were committed and written and all the lines of the transport were
\* published, by a task that was never aborted on a transport that never broke
C38_Witness ==
    /\ Len(commitLog) = 2
    /\ Len(written) = 2
    /\ Len(published) = BothReads
    /\ ~NotServing
    /\ taskState = "running" /\ taskPc = "select"

\* a call on the clone of the old socket that sends
OldCloneSends == old.clone = "alive" /\ old'.tries = old.tries + 1

\* C39 (under SpecReconnect): the first connection starts with the counter at 1 and
\* connect leaves the handle with an empty queue, an empty broadcast, a transport
\* nothing was written to and the counter at 1, whatever the counter was, while a
\* clone of the old socket keeps the old counter, queue and broadcast; abort() was
\* called on the old task; no step made through the old clone or by the old task
\* changes anything of the new connection, and no step of the new connection
\* changes anything the old clone holds; what is written to the new transport was
\* committed to the new queue, what the old clone received was published on the
\* old broadcast; and a send through the old clone made after the old task has
\* ended returns an error and leaves the old queue and the old counter as they were.
C39_ReconnectIsolatesOldClone ==
    /\ startCounter = FirstSequence
    /\ [][ConnectStep =>
            /\ counter' = FirstSequence
            /\ outq' = << >> /\ commitLog' = << >> /\ written' = << >>
            /\ published' = << >>
            /\ subs'[SockSub] = [NoSub EXCEPT !.state = "open"]
            /\ clone' = "none"
            /\ taskState' = "running" /\ ~abortReq'
            /\ clone = "alive" =>
                  /\ old'.clone = "alive"
                  /\ old'.counter = counter
                  /\ old'.published = published
                  /\ Len(old'.outq) = Len(outq)
                  /\ prior'[old'.g].abort]_vars
    /\ [](old.g # 0 => prior[old.g].abort)
    /\ [][(old' # old /\ ~ConnectStep) => UNCHANGED << coreVars, serVars >>]_vars
    /\ [][(<< coreVars, serVars >>' # << coreVars, serVars >> /\ ~ConnectStep) =>
            UNCHANGED old]_vars
    /\ [](\A p \in 1..Len(written) :
            /\ written[p].k <= Len(commitLog)
            /\ written[p] = commitLog[written[p].k])
    /\ [](/\ Len(old.got) <= old.cursor
          /\ old.cursor <= Len(old.published)
          /\ \A k \in 1..Len(old.got) :
                old.got[k] = old.published[old.cursor - Len(old.got) + k])
    /\ [][(OldCloneSends /\ ~OldTaskRuns) =>
            /\ lastCall'.on = "old clone"
            /\ lastCall'.err \in { "SendReserve", "Sender(Closed)" }
            /\ old'.outq = old.outq
            /\ old'.counter = old.counter]_vars

\* the first connection sent line 1 and its clone was kept; after connect the old
\* clone sent once more while the old task still ran, and the line, numbered 2 by
\* the old counter, went to the old transport; the old clone received a line of the
\* old broadcast; the old task ended and the next send through the old clone
\* failed at reserve.  The new connection numbered its first line 1, wrote it to
\* the new transport and published the one line the new transport delivered
C39_Witness ==
    /\ old.clone = "alive" /\ old.g = 1 /\ prior[1].state = "ended"
    /\ old.counter = 3
    /\ Len(old.written) = 2 /\ old.written[2] = SequencedLine(2, M1234)
    /\ old.got = << TempLine >>
    /\ lastCall = Returned("send", "old clone", "SendReserve")
    /\ counter = 2
    /\ Len(written) = 1 /\ written[1].bytes = SequencedLine(1, G1234)
    /\ published = << OkLine(1) >>

\* the correlators that a published line resolved, by the line's place
ResolvedByLine(k) ==
    { i \in SendIds : corr[i].state = "resolved" /\ corr[i].why = "match" /\ subs[i].cursor = k }

\* C40 (under SpecPair): while set_sequence was never called, the correlators
\* that wait, and the sends on their way to one, have pairwise distinct numbers;
\* a published line has resolved at most one correlator; and the line that
\* resolved a correlator acknowledges its number and was published after the
\* correlator's subscription was opened.
C40_OneLineOneCorrelator ==
    nSetSeq = 0 =>
        /\ \A i, j \in SendIds :
              (i # j /\ sends[i].seq # 0 /\ sends[j].seq # 0) => sends[i].seq # sends[j].seq
        /\ \A i, j \in SendIds :
              (i # j /\ corr[i].state = "waiting" /\ corr[j].state = "waiting") =>
                  corr[i].sequence # corr[j].sequence
        /\ \A k \in 1..Len(published) : Cardinality(ResolvedByLine(k)) <= 1
        /\ \A i \in SendIds :
              (corr[i].state = "resolved" /\ corr[i].why = "match") =>
                  /\ subs[i].cursor > subs[i].start
                  /\ subs[i].cursor <= Len(published)
                  /\ Matches(corr[i].sequence, Classify(published[subs[i].cursor]))
                  /\ corr[i].result = Classify(published[subs[i].cursor])

\* "ok 2" was published before send 2 opened its subscription; the correlator of
\* send 2 was resolved by the "Resend: 2" that came after, which the correlator of
\* send 1 passed and waits on
C40_Witness ==
    /\ nSetSeq = 0
    /\ published = << OkLine(2), ResendLine(2) >>
    /\ subs[2].start = 1
    /\ corr[2].state = "resolved" /\ corr[2].result = Resend(2)
    /\ corr[1].state = "waiting" /\ corr[1].sequence = 1 /\ subs[1].cursor = 2

(***************************************************************************)
(* Claims about the macro table, checked under SpecMacro.                  *)
(***************************************************************************)
\* the elements of a sequence
Range(q) == { q[i] : i \in 1..Len(q) }

\* C34: a call of expand_all never exhausts the stack, whatever the table and the
\* codes, and what it returns is upper-cased, holds no name the table has a macro
\* for, and is the upper-cased input when no code of the input is a macro.
C34_ExpandAllTerminates ==
    /\ expand.pc # "overflow"
    /\ expand.pc = "done" =>
          /\ \A e \in Range(expand.expanded) : e = UpperStr(e) /\ MacrosGet(macros, e) = << >>
          /\ (\A c \in Range(expand.codes) : MacrosGet(macros, c) = << >>) =>
                 expand.expanded = UpperAll(expand.codes)

\* C35: after add(n, steps) the steps are found under every spelling of n, and
\* after remove(m) the macro is found under no spelling of m.
C35_NamesIgnoreCase ==
    /\ lastMacro.op = "add" =>
          \A m \in MacroNames :
              UpperStr(m) = UpperStr(lastMacro.name) =>
                  MacrosGet(macros, m) = << lastMacro.steps >>
    /\ lastMacro.op = "remove" =>
          \A m \in MacroNames :
              UpperStr(m) = UpperStr(lastMacro.name) => MacrosGet(macros, m) = << >>

(***************************************************************************)
(* Claims about the sequence counter, checked under SpecSer.               *)
(***************************************************************************)
\* C11 as stated (checked under SpecSet): set_sequence(k) while no serialization is
\* in progress, then one sequenced serialization: the call returns k, its line
\* carries k, and the counter is left at k + 1.
C11_SetThenSerialize ==
    (/\ lastSet # << >>
     /\ lastSet[1].quiet
     /\ Len(claimLog) = lastSet[1].at + 1
     /\ AllIdle) =>
        /\ claimLog[Len(claimLog)].seq = lastSet[1].k
        /\ \A r \in returned :
              r.idx = Len(claimLog) =>
                  r.seq = lastSet[1].k /\ LineSequence(r.bytes) = lastSet[1].k
        /\ counter > lastSet[1].k /\ counter - lastSet[1].k = 1

\* C12 (checked under SpecSet): a serialization that had claimed its number when
\* set_sequence stored returns the number it claimed and emits it in its line;
\* the first serialization that claims after the store gets the stored number.
C12_StoreSparesClaimed ==
    /\ \A r \in returned :
          r.stored =>
              /\ r.seq = claimLog[r.idx].seq
              /\ LineSequence(r.bytes) = claimLog[r.idx].seq
              /\ r.idx <= lastSet[1].at
    /\ (lastSet # << >> /\ Len(claimLog) > lastSet[1].at) =>
          claimLog[lastSet[1].at + 1].seq = lastSet[1].k

\* set_sequence(i32::MAX) ran between the claim of number 1 and the writing of its
\* line; the call returned 1, and the next call returned i32::MAX
C12_Witness ==
    \E r1, r2 \in returned :
        /\ r1.stored /\ r1.seq = 1 /\ r1.idx = 1
        /\ lastSet[1].at = 1 /\ lastSet[1].k = I32Max
        /\ r2.idx = 2 /\ r2.seq = I32Max

\* C10 as stated: without set_sequence every number handed out is greater than
\* all numbers handed out before it.
C10_StrictlyMonotone ==
    nSetSeq = 0 =>
        \A i, j \in 1..Len(claimLog) : i < j => claimLog[i].seq < claimLog[j].seq

=============================================================================
